---- MODULE Spec2Model ----
(***************************************************************************)
(* A model of wise-agents' shared conversation context, registry and      *)
(* request routing (src/src/wiseagents/core.py).                           *)
(*                                                                         *)
(* The store is modelled once; use_redis selects, as in the code, the     *)
(* branch every operation takes.  Local state lives in class attributes,  *)
(* redis keys carry no context name: in both cases one store is shared by *)
(* every context of the process group.                                    *)
(***************************************************************************)
EXTENDS Integers, Sequences, FiniteSets, TLC

\* ---------------------------------------------------------------- bounds
MaxPhases == 2
MaxParticipants == 3
MaxSeqLen == 2
MaxHandled == 1
MaxPhaseCalls == 2
MaxAgentCalls == 2
NumProcs == 2
MaxHistory == 2
MaxToolCalls == 2
MaxQueries == 2

\* ---------------------------------------------------------------- values
Agents == {"A", "B", "C"}
SeqAgents == {"A", "B"}
Chats == {"c1"}
Descriptions == {"d1", "d2"}
Responses == {"", "r1"}
ContextNames == {"ctx"}

\* Python values whose type the code's comparisons depend on.
PyNone == [ty |-> "None"]
PyStr(s) == [ty |-> "str", v |-> s]
PyBytes(s) == [ty |-> "bytes", v |-> s]
PyInt(n) == [ty |-> "int", v |-> n]
PyList(l) == [ty |-> "list", v |-> l]
PyBool(b) == [ty |-> "bool", v |-> b]
PyEnum(name) == [ty |-> "WiseAgentCollaborationType", v |-> name]

\* What redis-py hands back for a value that was sent as a str: bytes.
RedisReply(x) == IF x.ty = "str" THEN PyBytes(x.v) ELSE x

\* ---------------------------------------------------------------- helpers
RECURSIVE SeqsUpTo(_, _)
SeqsUpTo(S, n) ==
    IF n = 0 THEN {<<>>}
    ELSE LET shorter == SeqsUpTo(S, n - 1)
         IN shorter \cup {Append(s, x) : s \in {t \in shorter : Len(t) = n - 1}, x \in S}

Range(s) == {s[i] : i \in DOMAIN s}

\* list.index(x): the first position holding x (0 when absent).
IndexOf(s, x) ==
    IF x \in Range(s) THEN CHOOSE i \in DOMAIN s : s[i] = x /\ \A j \in 1..(i - 1) : s[j] # x
    ELSE 0

\* list.remove(x): drops the first occurrence of x.
ListRemove(s, x) ==
    LET i == IndexOf(s, x)
    IN [j \in 1..(Len(s) - 1) |-> IF j < i THEN s[j] ELSE s[j + 1]]

Count(s, x) == Cardinality({i \in DOMAIN s : s[i] = x})

\* dict operations
EmptyDict == <<>>
HasKey(d, k) == k \in DOMAIN d
DictSet(d, k, v) == [x \in DOMAIN d \cup {k} |-> IF x = k THEN v ELSE d[x]]
DictDel(d, k) == [x \in DOMAIN d \ {k} |-> d[x]]

\* ---------------------------------------------------------------- state
VARIABLES
    use_redis,
    participants,
    message_trace,
    llm_chat_completion,
    llm_required_tool_call,
    llm_available_tools_in_chat,
    queries,
    agents_sequence,
    route_response_to,
    agent_phase_assignments,
    current_phase,
    required_agents_for_current_phase,
    collaboration_type,
    agents,
    contexts,
    tools,
    outbox,
    handled,
    transports,
    replay,
    last,
    pc,
    job,
    snap,
    watching,
    dirty

ctxVars == <<participants, message_trace, llm_chat_completion>>
toolVars == <<llm_required_tool_call, llm_available_tools_in_chat, queries>>
seqVars == <<agents_sequence, route_response_to, collaboration_type>>
phaseVars == <<agent_phase_assignments, current_phase, required_agents_for_current_phase>>
regVars == <<agents, contexts, tools>>
agentVars == <<outbox, handled, transports>>
procVars == <<pc, job, snap, watching, dirty>>
vars == <<use_redis, ctxVars, toolVars, seqVars, phaseVars, regVars, agentVars, last, procVars,
          replay>>

Procs == 1..NumProcs

NoCall == [op |-> "none"]

\* The calls one process made on the local backend and what it observed after
\* each, kept to make the same calls on the redis backend (pos is the call to
\* make next there, 0 while the local run goes on).
NoReplay == [calls |-> <<>>, seen |-> <<>>, pos |-> 0]

\* A call that returned normally / a call that raised.
Ok(op, args, ret) == [op |-> op, args |-> args, ret |-> ret, err |-> ""]
Raised(op, args, err) == [op |-> op, args |-> args, ret |-> PyNone, err |-> err]

InitStore ==
    /\ participants = <<>>
    /\ message_trace = <<>>
    /\ llm_chat_completion = EmptyDict
    /\ llm_required_tool_call = EmptyDict
    /\ llm_available_tools_in_chat = EmptyDict
    /\ queries = EmptyDict
    /\ agents_sequence = EmptyDict
    /\ route_response_to = EmptyDict
    /\ agent_phase_assignments = EmptyDict
    /\ current_phase = EmptyDict
    /\ required_agents_for_current_phase = EmptyDict
    /\ collaboration_type = EmptyDict
    /\ agents = EmptyDict
    /\ tools = EmptyDict
    /\ contexts = EmptyDict
    /\ outbox = <<>>
    /\ handled = 0
    /\ transports = <<>>
    /\ replay = NoReplay
    /\ last = NoCall

InitProcs ==
    /\ pc = [p \in Procs |-> "idle"]
    /\ job = [p \in Procs |-> NoCall]
    /\ snap = [p \in Procs |-> PyNone]
    /\ watching = [p \in Procs |-> {}]
    /\ dirty = [p \in Procs |-> FALSE]

\* ---------------------------------------------------------------- phases
\* The agent lists a coordinator hands to set_agent_phase_assignments.
PhaseChoices == {<<"A">>, <<"A", "B">>, <<"B", "A">>, <<"A", "A">>}
PhaseInputs == SeqsUpTo(PhaseChoices, MaxPhases) \ {<<>>}
PhaseIndexes == 0..MaxPhases

get_agent_phase_assignments(chat) ==
    IF HasKey(agent_phase_assignments, chat) THEN agent_phase_assignments[chat] ELSE <<>>

\* None when no phase was set.
get_current_phase(chat) ==
    IF HasKey(current_phase, chat) THEN PyInt(current_phase[chat]) ELSE PyNone

get_required_agents_for_current_phase(chat) ==
    IF HasKey(required_agents_for_current_phase, chat)
    THEN required_agents_for_current_phase[chat] ELSE <<>>

\* Python's list[phase] for phase >= 0: positions are zero based.
InRange(l, phase) == phase >= 0 /\ phase < Len(l)
Item(l, phase) == l[phase + 1]

set_agent_phase_assignments(chat, phases) ==
    /\ agent_phase_assignments' = DictSet(agent_phase_assignments, chat, phases)
    /\ last' = Ok("set_agent_phase_assignments", <<chat>>, PyNone)
    /\ UNCHANGED <<current_phase, required_agents_for_current_phase>>

\* The effect of set_current_phase on the phase state, and how it ends ("" or the
\* exception).  Redis evaluates the phase's agent list while the pipeline is
\* built, so a failure writes nothing; the local branch has stored the phase
\* number before it looks up the list.
SetPhaseErr(chat, phase) ==
    IF use_redis
    THEN IF InRange(get_agent_phase_assignments(chat), phase) THEN "" ELSE "IndexError"
    ELSE IF ~HasKey(agent_phase_assignments, chat) THEN "KeyError"
         ELSE IF InRange(agent_phase_assignments[chat], phase) THEN "" ELSE "IndexError"

SetPhaseCurrent(chat, phase) ==
    IF use_redis /\ SetPhaseErr(chat, phase) # "" THEN current_phase
    ELSE DictSet(current_phase, chat, phase)

SetPhaseRequiredForgotten(chat, phase) == required_agents_for_current_phase

\* Were the new phase's agents added to those still required.
SetPhaseRequiredMerged(chat, phase) ==
    IF SetPhaseErr(chat, phase) # "" THEN required_agents_for_current_phase
    ELSE DictSet(required_agents_for_current_phase, chat,
                 get_required_agents_for_current_phase(chat)
                     \o Item(get_agent_phase_assignments(chat), phase))

SetPhaseRequired(chat, phase) ==
    IF SetPhaseErr(chat, phase) # "" THEN required_agents_for_current_phase
    ELSE DictSet(required_agents_for_current_phase, chat,
                 Item(get_agent_phase_assignments(chat), phase))

set_current_phase(chat, phase) ==
    /\ current_phase' = SetPhaseCurrent(chat, phase)
    /\ required_agents_for_current_phase' = SetPhaseRequired(chat, phase)
    /\ last' = IF SetPhaseErr(chat, phase) = ""
               THEN Ok("set_current_phase", <<chat, phase>>, PyNone)
               ELSE Raised("set_current_phase", <<chat, phase>>, SetPhaseErr(chat, phase))
    /\ UNCHANGED agent_phase_assignments

\* get_agents_for_next_phase: None + 1 raises when no phase was ever set.
NextPhaseSkip(chat) == current_phase[chat] + 2

NextPhase(chat) == current_phase[chat] + 1

\* Were the advance to wait for the current phase's agents.
HasNextPhaseWhenDone(chat) ==
    /\ NextPhase(chat) < Len(get_agent_phase_assignments(chat))
    /\ get_required_agents_for_current_phase(chat) = <<>>

HasNextPhase(chat) == NextPhase(chat) < Len(get_agent_phase_assignments(chat))

get_agents_for_next_phase(chat) ==
    IF get_current_phase(chat) = PyNone
    THEN /\ last' = Raised("get_agents_for_next_phase", <<chat>>, "TypeError")
         /\ UNCHANGED phaseVars
    ELSE IF HasNextPhase(chat)
    THEN /\ current_phase' = SetPhaseCurrent(chat, NextPhase(chat))
         /\ required_agents_for_current_phase' = SetPhaseRequired(chat, NextPhase(chat))
         /\ last' = Ok("get_agents_for_next_phase", <<chat>>,
                       PyList(Item(get_agent_phase_assignments(chat), NextPhase(chat))))
         /\ UNCHANGED agent_phase_assignments
    ELSE /\ last' = Ok("get_agents_for_next_phase", <<chat>>, PyNone)
         /\ UNCHANGED phaseVars

\* remove_required_agent_for_current_phase, one caller at a time.  list.remove
\* raises ValueError for an agent that is not in the list.  Only the redis
\* branch deletes the key when the list becomes empty.
RemoveRequiredErr(chat, agent) ==
    IF HasKey(required_agents_for_current_phase, chat)
       /\ agent \notin Range(required_agents_for_current_phase[chat])
    THEN "ValueError" ELSE ""

RemoveRequiredResult(chat, agent) ==
    IF ~HasKey(required_agents_for_current_phase, chat) \/ RemoveRequiredErr(chat, agent) # ""
    THEN required_agents_for_current_phase
    ELSE LET rest == ListRemove(required_agents_for_current_phase[chat], agent)
         IN IF use_redis /\ Len(rest) = 0
            THEN DictDel(required_agents_for_current_phase, chat)
            ELSE DictSet(required_agents_for_current_phase, chat, rest)

\* What the removal would do were the required list the phase's own list.
remove_required_agent_aliased(chat, agent) ==
    /\ required_agents_for_current_phase' = RemoveRequiredResult(chat, agent)
    /\ last' = IF RemoveRequiredErr(chat, agent) = ""
               THEN Ok("remove_required_agent_for_current_phase", <<chat, agent>>, PyNone)
               ELSE Raised("remove_required_agent_for_current_phase", <<chat, agent>>,
                           RemoveRequiredErr(chat, agent))
    /\ agent_phase_assignments' =
         IF /\ HasKey(required_agents_for_current_phase, chat)
            /\ RemoveRequiredErr(chat, agent) = ""
            /\ HasKey(current_phase, chat)
            /\ InRange(get_agent_phase_assignments(chat), current_phase[chat])
         THEN [agent_phase_assignments EXCEPT ![chat][current_phase[chat] + 1] = ListRemove(@, agent)]
         ELSE agent_phase_assignments
    /\ UNCHANGED current_phase

remove_required_agent_for_current_phase(chat, agent) ==
    /\ required_agents_for_current_phase' = RemoveRequiredResult(chat, agent)
    /\ last' = IF RemoveRequiredErr(chat, agent) = ""
               THEN Ok("remove_required_agent_for_current_phase", <<chat, agent>>, PyNone)
               ELSE Raised("remove_required_agent_for_current_phase", <<chat, agent>>,
                           RemoveRequiredErr(chat, agent))
    /\ UNCHANGED <<agent_phase_assignments, current_phase>>

\* -------------------------------------------------------------- registry
\* A context object: its own fields are its name and its configuration; all
\* the conversation state is in the class attributes or in redis.
WiseAgentContext(name) == [name |-> name, use_redis |-> use_redis]

\* register_context: the registry maps the context's name to the context.
register_context_as_first(registry, context) == DictSet(registry, "ctx", context)

register_context(registry, context) == DictSet(registry, context.name, context)

does_context_exist(name) == HasKey(contexts, name)

\* get_or_create_context, the registry it leaves: a context that is not
\* registered is constructed, and its constructor registers it.
get_or_create_context(name) ==
    IF HasKey(contexts, name) THEN contexts
    ELSE register_context(contexts, WiseAgentContext(name))

\* get_or_create_context, the context it returns.
ContextReturned(name) ==
    IF HasKey(contexts, name) THEN contexts[name] ELSE WiseAgentContext(name)

\* remove_context: hdel on redis, dict.pop (KeyError when absent) locally.
RemoveContextErr(name) ==
    IF ~use_redis /\ ~HasKey(contexts, name) THEN "KeyError" ELSE ""

remove_context(name) ==
    /\ contexts' = DictDel(contexts, name)
    /\ last' = IF RemoveContextErr(name) = ""
               THEN Ok("remove_context", <<name>>, PyNone)
               ELSE Raised("remove_context", <<name>>, RemoveContextErr(name))

\* register_agent, one caller at a time.  The redis branch refuses a name that
\* is in the "agents" hash; the local branch reads cls.agents, an attribute the
\* class does not define (the directory is cls.agents_descriptions_dict).
RegisterAgentErr(name) ==
    IF use_redis
    THEN IF HasKey(agents, name) THEN "NameError" ELSE ""
    ELSE "AttributeError"

RegisterAgentResult(name, description) ==
    IF RegisterAgentErr(name) = "" THEN DictSet(agents, name, description) ELSE agents

register_agent(name, description) ==
    /\ agents' = RegisterAgentResult(name, description)
    /\ last' = IF RegisterAgentErr(name) = ""
               THEN Ok("register_agent", <<name, description>>, PyNone)
               ELSE Raised("register_agent", <<name, description>>, RegisterAgentErr(name))

\* unregister_agent: hdel on redis, dict.pop (KeyError when absent) locally.
UnregisterAgentErr(name) ==
    IF ~use_redis /\ ~HasKey(agents, name) THEN "KeyError" ELSE ""

unregister_agent(name) ==
    /\ agents' = DictDel(agents, name)
    /\ last' = IF UnregisterAgentErr(name) = ""
               THEN Ok("unregister_agent", <<name>>, PyNone)
               ELSE Raised("unregister_agent", <<name>>, UnregisterAgentErr(name))

\* ---------------------------------------------------------------- tools
\* A tool descriptor without a callback: its name, description and agent flag.
WiseAgentTool(name, description, agent_tool) ==
    [ty |-> "WiseAgentTool", name |-> name, description |-> description, agent_tool |-> agent_tool]

register_tool_keeping_first(registry, tool) ==
    IF HasKey(registry, tool.name) THEN registry ELSE DictSet(registry, tool.name, tool)

\* register_tool: hset / dict assignment under the tool's name.
register_tool(registry, tool) == DictSet(registry, tool.name, tool)

\* get_tool: the tool stored under the name, None when there is none.
get_tool(tool_name) == IF HasKey(tools, tool_name) THEN tools[tool_name] ELSE PyNone

\* ---------------------------------------------------------- participants
\* What the list holds for an agent name: the str itself locally, the bytes
\* redis returns from lrange on the redis backend.
Stored(x) == IF use_redis THEN RedisReply(x) ELSE x

\* Python's "agent_name not in <list>": element equality, and a str never
\* equals bytes.
NotInList(x, l) == x \notin Range(l)

AddParticipantResult(l, agent_name) ==
    IF NotInList(PyStr(agent_name), l) THEN Append(l, Stored(PyStr(agent_name))) ELSE l

add_participant(agent_name) ==
    participants' = AddParticipantResult(participants, agent_name)

\* The number of entries of the participants list that name the agent.
Occurrences(l, agent_name) == Cardinality({i \in DOMAIN l : l[i].v = agent_name})

\* --------------------------------------------------------- chat history
AssistantMessageAsUser(content) == [role |-> "user", content |-> content]

AssistantMessage(content) == [role |-> "assistant", content |-> content]

\* The records callers append: append_chat_completion stores its argument as
\* one element of the chat's list.
Records == {[role |-> "user", content |-> "q1"], AssistantMessage("r1")}

AppendChatReplacing(d, chat, message) == DictSet(d, chat, <<message>>)

AppendChatPrepending(d, chat, message) ==
    IF HasKey(d, chat) THEN DictSet(d, chat, <<message>> \o d[chat])
    ELSE DictSet(d, chat, <<message>>)

AppendChat(d, chat, message) ==
    IF HasKey(d, chat) THEN DictSet(d, chat, Append(d[chat], message))
    ELSE DictSet(d, chat, <<message>>)

append_chat_completion(chat, message) ==
    llm_chat_completion' = AppendChat(llm_chat_completion, chat, message)

\* The records read back for a chat from the llm_chat_completion property: those
\* of the chat's list, none when the dict has no key for the chat.
ChatHistory(chat) == IF HasKey(llm_chat_completion, chat) THEN llm_chat_completion[chat] ELSE <<>>

\* --------------------------------------------------- required tool calls
Tools == {"t1", "t2"}

get_required_tool_calls(chat) ==
    IF HasKey(llm_required_tool_call, chat) THEN llm_required_tool_call[chat] ELSE <<>>

\* One caller at a time: the first append stores [tool_name], a later one the
\* stored list with tool_name appended.
append_required_tool_call(chat, tool_name) ==
    llm_required_tool_call' =
        DictSet(llm_required_tool_call, chat, Append(get_required_tool_calls(chat), tool_name))

\* remove_required_tool_call: nothing to do without a key for the chat;
\* list.remove raises ValueError for a tool that is not in the list.
RemoveToolCallErr(chat, tool_name) ==
    IF HasKey(llm_required_tool_call, chat) /\ tool_name \notin Range(llm_required_tool_call[chat])
    THEN "ValueError" ELSE ""

RemoveToolCallKeepingKey(chat, tool_name) ==
    IF ~HasKey(llm_required_tool_call, chat) \/ RemoveToolCallErr(chat, tool_name) # ""
    THEN llm_required_tool_call
    ELSE DictSet(llm_required_tool_call, chat, ListRemove(llm_required_tool_call[chat], tool_name))

\* Both branches drop the key when the list becomes empty (hdel, dict.pop).  On
\* redis the call then runs the local statements as well, on the class-level
\* dict that no redis-backed call ever fills.
RemoveToolCallResult(chat, tool_name) ==
    IF ~HasKey(llm_required_tool_call, chat) \/ RemoveToolCallErr(chat, tool_name) # ""
    THEN llm_required_tool_call
    ELSE LET rest == ListRemove(llm_required_tool_call[chat], tool_name)
         IN IF Len(rest) = 0
            THEN DictDel(llm_required_tool_call, chat)
            ELSE DictSet(llm_required_tool_call, chat, rest)

remove_required_tool_call(chat, tool_name) ==
    /\ llm_required_tool_call' = RemoveToolCallResult(chat, tool_name)
    /\ last' = IF RemoveToolCallErr(chat, tool_name) = ""
               THEN Ok("remove_required_tool_call", <<chat, tool_name>>, PyNone)
               ELSE Raised("remove_required_tool_call", <<chat, tool_name>>,
                           RemoveToolCallErr(chat, tool_name))

\* ------------------------------------------- available tools and queries
Queries == {"q1", "q2"}

get_available_tools_in_chat(chat) ==
    IF HasKey(llm_available_tools_in_chat, chat) THEN llm_available_tools_in_chat[chat] ELSE <<>>

append_available_tool_in_chat(chat, tool_param) ==
    llm_available_tools_in_chat' =
        DictSet(llm_available_tools_in_chat, chat, Append(get_available_tools_in_chat(chat), tool_param))

get_queries(chat) == IF HasKey(queries, chat) THEN queries[chat] ELSE <<>>

\* The last query of the chat, None when there is none.
get_current_query(chat) ==
    IF HasKey(queries, chat) /\ Len(queries[chat]) > 0
    THEN PyStr(queries[chat][Len(queries[chat])]) ELSE PyNone

\* add_query.  The redis branch writes [query] for a chat without queries with
\* an hset sent at once on the watching connection; the write makes the
\* connection's own execute() fail, and the retry finds the key and appends the
\* query a second time.
AddQueryFirst(query) == IF use_redis THEN <<query, query>> ELSE <<query>>

add_query(chat, query) ==
    queries' = DictSet(queries, chat,
                       IF HasKey(queries, chat) THEN Append(queries[chat], query)
                       ELSE AddQueryFirst(query))

\* ------------------------------------------------------------ sequencing
CollaborationTypes == {"SEQUENTIAL", "PHASED", "INDEPENDENT", "CHAT"}

get_agents_sequence(chat) ==
    IF HasKey(agents_sequence, chat) THEN agents_sequence[chat] ELSE <<>>

get_route_response_to(chat) ==
    IF HasKey(route_response_to, chat) THEN PyStr(route_response_to[chat]) ELSE PyNone

\* The agent after the first occurrence of current_agent, None when there is none.
NextIndexLast(agents_seq, current_agent) ==
    CHOOSE i \in DOMAIN agents_seq :
        agents_seq[i] = current_agent /\ \A j \in (i + 1)..Len(agents_seq) : agents_seq[j] # current_agent

\* Were the search to answer the position before the first.
NextIndexRestart(agents_seq, current_agent) == 0

NextIndex(agents_seq, current_agent) == IndexOf(agents_seq, current_agent)

get_next_agent_in_sequence(chat, current_agent) ==
    LET agents_seq == get_agents_sequence(chat)
    IN IF current_agent \in Range(agents_seq)
          /\ NextIndex(agents_seq, current_agent) + 1 <= Len(agents_seq)
       THEN PyStr(agents_seq[NextIndex(agents_seq, current_agent) + 1])
       ELSE PyNone

\* The chat id of a message that carries none (Python's None).
NoChatId == "<None>"

\* get_collaboration_type; "None" is Python's None.  The redis branch answers
\* INDEPENDENT for the chat id None, the stored type for a chat that has one, and
\* falls off its end (returning None) for a chat id with nothing stored.
get_collaboration_type(chat) ==
    IF use_redis
    THEN IF chat # NoChatId
         THEN IF HasKey(collaboration_type, chat) THEN collaboration_type[chat] ELSE "None"
         ELSE "INDEPENDENT"
    ELSE IF HasKey(collaboration_type, chat) THEN collaboration_type[chat] ELSE "INDEPENDENT"

\* The value a caller of get_collaboration_type receives.
CollaborationTypeReply(chat) ==
    IF get_collaboration_type(chat) = "None" THEN PyNone ELSE PyEnum(get_collaboration_type(chat))

\* The getters of a context that take a chat id, and what each returns.
ListGetters == {"get_required_tool_calls", "get_available_tools_in_chat", "get_agents_sequence",
                "get_agent_phase_assignments", "get_required_agents_for_current_phase",
                "get_queries"}
OptionalGetters == {"get_route_response_to", "get_current_phase", "get_current_query"}
Getters == ListGetters \cup OptionalGetters \cup {"get_collaboration_type"}

GetterReply(getter, chat) ==
    CASE getter = "get_required_tool_calls" -> PyList(get_required_tool_calls(chat))
      [] getter = "get_available_tools_in_chat" -> PyList(get_available_tools_in_chat(chat))
      [] getter = "get_agents_sequence" -> PyList(get_agents_sequence(chat))
      [] getter = "get_agent_phase_assignments" -> PyList(get_agent_phase_assignments(chat))
      [] getter = "get_required_agents_for_current_phase" ->
             PyList(get_required_agents_for_current_phase(chat))
      [] getter = "get_queries" -> PyList(get_queries(chat))
      [] getter = "get_route_response_to" -> get_route_response_to(chat)
      [] getter = "get_current_phase" -> get_current_phase(chat)
      [] getter = "get_current_query" -> get_current_query(chat)
      [] getter = "get_collaboration_type" -> CollaborationTypeReply(chat)

\* ---------------------------------------------------------------- agent
\* WiseAgentMessage(message=.., sender=.., context_name=.., chat_id=..) with the
\* message type the caller passes ("unset" when it passes none).
Message(content, sender, message_type, context_name, chat) ==
    [message |-> content, sender |-> sender, message_type |-> message_type,
     context_name |-> context_name, chat_id |-> chat]

\* What trace() stores: the message object locally, the bytes of its repr on redis.
Traced(message) == IF use_redis THEN [ty |-> "bytes", v |-> message]
                   ELSE [ty |-> "message", v |-> message]

\* One message handed to the transport: by send_request or by send_response.
Sent(via, dest, message) == [via |-> via, to |-> dest, message |-> message]

\* The modes in which handle_request reads and extends the shared history.
UsesHistoryAlways(mode) == TRUE

UsesHistory(mode) == mode \in {"PHASED", "CHAT"}

\* StompWiseAgentTransport.  conn and conn2 are attributes: each holds None
\* or a stomp.Connection object, and start() puts a new object in each.  The
\* record keeps the state of the object each attribute holds now: conn / conn2
\* is "None" (no object), "connected" or "disconnected"; subscribed says
\* whether the object in conn is subscribed to the request queue, subscribed2
\* whether the one in conn2 is to the response queue.  A call on a connection
\* looks the attribute up and is made on the object found, which start() of
\* another thread may replace while the call lasts: replaced keeps the objects
\* that were replaced with a thread inside a call on them (NoConnection where
\* the threads have left one), and leaked says that one of them, left by every
\* thread, is still connected and subscribed to the request queue.
Connection(queue, connected, subscribed) ==
    [queue |-> queue, connected |-> connected, subscribed |-> subscribed]

NoConnection == Connection("", FALSE, FALSE)

StompWiseAgentTransport(agent_name) ==
    [agent_name |-> agent_name, conn |-> "None", conn2 |-> "None", subscribed |-> FALSE,
     subscribed2 |-> FALSE, replaced |-> <<>>, leaked |-> FALSE]

is_connected(c) == c = "connected"

NeedsStart(t) == t.conn = "None" \/ t.conn2 = "None"

\* The connection object a thread is inside a call on: the one attribute attr
\* holds, or a replaced one.
NotHeld == [attr |-> "", slot |-> 0]

Held(attr) == [attr |-> attr, slot |-> 0]

Replaced(slot) == [attr |-> "replaced", slot |-> slot]

ConnectionOf(t, held) ==
    IF held.attr = "conn" THEN Connection("request", is_connected(t.conn), t.subscribed)
    ELSE IF held.attr = "conn2" THEN Connection("response", is_connected(t.conn2), t.subscribed2)
    ELSE t.replaced[held.slot]

WithConnection(t, held, c) ==
    LET state == IF c.connected THEN "connected" ELSE "disconnected"
    IN IF held.attr = "conn" THEN [t EXCEPT !.conn = state, !.subscribed = c.subscribed]
       ELSE IF held.attr = "conn2" THEN [t EXCEPT !.conn2 = state, !.subscribed2 = c.subscribed]
       ELSE [t EXCEPT !.replaced[held.slot] = c]

\* The connection c when the call of position at on it has returned.  A
\* subscription is one of a connected connection.
Completed(at, c) ==
    IF at \in {"connect", "connect2", "reconnect", "reconnect2"} THEN [c EXCEPT !.connected = TRUE]
    ELSE IF at \in {"subscribe", "subscribe2"} THEN [c EXCEPT !.subscribed = c.connected]
    ELSE IF at \in {"unsubscribe", "unsubscribe2"} THEN [c EXCEPT !.subscribed = FALSE]
    ELSE IF at \in {"disconnect", "disconnect2"}
    THEN [c EXCEPT !.connected = FALSE, !.subscribed = FALSE]
    ELSE c

\* A replaced connection that no thread is inside of any more is out of reach
\* of the program; the broker keeps it as it was left.  others are the
\* connections the other threads are inside a call on.
Released(t, held, others) ==
    IF held.attr = "replaced" /\ held \notin others
    THEN LET c == t.replaced[held.slot]
             left == [t.replaced EXCEPT ![held.slot] = NoConnection]
             used == {slot \in DOMAIN left : left[slot] # NoConnection}
             n == IF used = {} THEN 0 ELSE CHOOSE slot \in used : \A other \in used : other <= slot
         IN [t EXCEPT !.replaced = SubSeq(left, 1, n),
                      !.leaked = @ \/ (c.queue = "request" /\ c.connected /\ c.subscribed)]
    ELSE t

\* The transport in the middle of a call: the next position of the thread
\* ("done" when the call returns, "raised" when it raises err), whether a
\* frame went out, the connection the thread is inside a call on, and the
\* connection that was replaced on the way (from) with what holds it now (to).
Waits(t, at, held) ==
    [t |-> t, at |-> at, err |-> "", frame |-> FALSE, held |-> held, from |-> NotHeld,
     to |-> NotHeld]

Ends(t) == Waits(t, "done", NotHeld)

Raises(t, err) == [Waits(t, "raised", NotHeld) EXCEPT !.err = err]

\* self.conn = stomp.Connection(...) / self.conn2 = stomp.Connection(...),
\* followed by connect(wait=True) on the new object: the object the attribute
\* held stays with the threads that are inside a call on it.
NewConnection(t, attr, at, others) ==
    LET kept == Held(attr) \in others
        free == {s \in DOMAIN t.replaced : t.replaced[s] = NoConnection}
        slot == IF free = {} THEN Len(t.replaced) + 1
                ELSE CHOOSE s \in free : \A other \in free : s <= other
        old == ConnectionOf(t, Held(attr))
        t1 == IF ~kept THEN t
              ELSE IF free = {} THEN [t EXCEPT !.replaced = Append(@, old)]
              ELSE [t EXCEPT !.replaced[slot] = old]
        new == Connection(IF attr = "conn" THEN "request" ELSE "response", FALSE, FALSE)
    IN [Waits(WithConnection(t1, Held(attr), new), at, Held(attr))
          EXCEPT !.from = IF kept THEN Held(attr) ELSE NotHeld,
                 !.to = IF kept THEN Replaced(slot) ELSE NotHeld]

\* The calls that need a connected connection.
NeedConnected == {"subscribe", "subscribe2", "unsubscribe", "unsubscribe2", "send_frame"}

\* self.<attr>.<call>(...): the attribute is looked up and the call of
\* position at begins on the object found.  None has no such method
\* (AttributeError); subscribe, unsubscribe and send on a connection that is
\* not connected raise NotConnectedException at once; disconnect on one that
\* is not connected does nothing.
Begins(t, at, attr) ==
    LET c == IF attr = "conn" THEN t.conn ELSE t.conn2
    IN IF c = "None" THEN Raises(t, "AttributeError")
       ELSE IF at \in NeedConnected /\ ~is_connected(c) THEN Raises(t, "NotConnectedException")
       ELSE Waits(t, at, Held(attr))

\* start(), stop(), send_request() or send_response() (op) of transport t goes
\* on from position from, up to the next call on a connection, in which the
\* thread waits for the broker, or to its end.  The positions are
\*   "transport", "start", "stop": the call begins (a send with the test of
\*           line 116 / 132 that decides on start());
\*   start:  "connect" (98), "subscribe" (99), "connect2" (104), "subscribe2" (106),
\*           and "conn2" (101) between them: once conn is subscribed its
\*           listener thread hands requests to the agent, which may find
\*           conn2 still None;
\*   stop:   "unsubscribe" (142), "unsubscribe2" (144), "disconnect" (146),
\*           "disconnect2" (147);
\*   sends:  "reconnect" (119), "reconnect2" (121), "send_frame" (124 / 136).
\* send_request_from is send_request from the test of line 118, 120 or the send
\* of 124 on; Started is a call once start() has returned or was not needed.
send_request_from(line, t) ==
    IF line <= 118 /\ ~is_connected(t.conn) THEN Begins(t, "reconnect", "conn")
    ELSE IF line <= 120 /\ ~is_connected(t.conn2) THEN Begins(t, "reconnect2", "conn2")
    ELSE Begins(t, "send_frame", "conn")

Started(op, t) ==
    IF op = "send_request" THEN send_request_from(118, t)
    ELSE IF op = "send_response" THEN Begins(t, "send_frame", "conn2")
    ELSE Ends(t)

transport_next(op, from, t, others) ==
    CASE from \in {"transport", "start"} ->
           IF from = "transport" /\ ~NeedsStart(t) THEN Started(op, t)
           ELSE IF is_connected(t.conn) \/ is_connected(t.conn2) THEN Started(op, t)
           ELSE NewConnection(t, "conn", "connect", others)
      [] from = "connect" -> Begins(t, "subscribe", "conn")
      [] from = "subscribe" -> Waits(t, "conn2", NotHeld)
      [] from = "conn2" -> NewConnection(t, "conn2", "connect2", others)
      [] from = "connect2" -> Begins(t, "subscribe2", "conn2")
      [] from = "subscribe2" -> Started(op, t)
      [] from = "reconnect" -> send_request_from(120, t)
      [] from = "reconnect2" -> send_request_from(124, t)
      [] from = "send_frame" -> Ends(t)
      [] from = "stop" -> IF t.conn = "None" THEN Ends(t) ELSE Begins(t, "unsubscribe", "conn")
      [] from = "unsubscribe" -> Begins(t, "unsubscribe2", "conn2")
      [] from = "unsubscribe2" -> Begins(t, "disconnect", "conn")
      [] from = "disconnect" -> Begins(t, "disconnect2", "conn2")
      [] from = "disconnect2" -> Ends(t)

\* The call of position at, which the thread made on connection held, returns:
\* it has acted on that object, whatever the attribute holds by now, a send by
\* putting the frame out; the thread goes on to its next call.
transport_step(op, at, t, held, others) ==
    LET done == WithConnection(t, held, Completed(at, ConnectionOf(t, held)))
    IN [transport_next(op, at, Released(done, held, others), others)
          EXCEPT !.frame = at = "send_frame"]

\* One step of a thread inside a call of the transport: the call begins or
\* creates conn2, or the call on a connection it waits in returns.
transport_do(op, at, t, held, others) ==
    IF at \in {"transport", "start", "conn2", "stop"} THEN transport_next(op, at, t, others)
    ELSE transport_step(op, at, t, held, others)

\* A transport whose connections are up: what a send needs.
Delivering == [conn |-> "connected", conn2 |-> "connected"]

\* A message on the request queue is handed to the transport: a connection
\* of it is subscribed to the queue.
Receives(t) ==
    \/ t.subscribed
    \/ t.leaked
    \/ \E slot \in DOMAIN t.replaced :
          LET c == t.replaced[slot] IN c.queue = "request" /\ c.connected /\ c.subscribed

\* send_request / send_response set the sender of the message they are given.
StampedNot(self, message) == message

Stamped(self, message) == [message EXCEPT !.sender = self]

\* What process_request is given as conversation history: dict.get(chat_id) of
\* the llm_chat_completion property (None without a key) in the history modes
\* for a chat id that is truthy, [] otherwise.
get_conversation_history_if_needed(chat_id, mode) ==
    IF chat_id # NoChatId /\ UsesHistory(mode)
    THEN IF HasKey(llm_chat_completion, chat_id) THEN PyList(llm_chat_completion[chat_id])
         ELSE PyNone
    ELSE PyList(<<>>)

\* handle_response routes only a response that is truthy.
HasResponseAlways(response_str) == TRUE

HasResponse(response_str) == response_str # ""

\* The keys the redis pipelines of add_participant and register_agent watch:
\* register_agent watches "participants" and writes the "agents" hash.
AddParticipantWatchKey == "participants"

RegisterAgentWatchKey == "participants"

\* ------------------------------------------------------------- threads
\* A call of an agent runs on a thread p, one access to the shared context,
\* the registry or the broker at a time: pc[p] names the access it makes next
\* and job[p] holds its arguments and local variables.  arg is the argument of
\* the call (the request of handle_request, the message of send_request and
\* send_response, the description of the agent that starts); object is the
\* agent object whose transport is used, 0 for a transport that delivers; out
\* is the message the call sends; seq and route are what the call found as the
\* chat's sequence and route when it routed the response; held is the
\* connection of the transport the thread is inside a call on.
AgentCall(op, self, arg, object) ==
    [op |-> op, self |-> self, arg |-> arg, object |-> object, new |-> FALSE, mode |-> "",
     response_str |-> "", seq |-> PyNone, route |-> PyNone, out |-> NoCall, held |-> NotHeld]

\* The positions of a thread that waits inside a call on a connection.
WaitPcs ==
    {"connect", "subscribe", "connect2", "subscribe2", "unsubscribe", "unsubscribe2",
     "disconnect", "disconnect2", "reconnect", "reconnect2", "send_frame"}

\* The threads other than p inside a call on a connection of the transport of
\* agent object object, and the connections they are inside a call on.
Waiting(p, object) == {q \in Procs \ {p} : pc[q] \in WaitPcs /\ job[q].object = object}

HeldBy(threads) == {job[q].held : q \in threads}

\* The threads' calls when thread p has gone on with call and step was its
\* step in the transport: a thread inside a call on the connection that p
\* replaced is inside a call on the object that was replaced.
Moves(p, object, step, call) ==
    IF step.from = NotHeld THEN [job EXCEPT ![p] = call]
    ELSE [q \in Procs |->
            IF q = p THEN call
            ELSE IF q \in Waiting(p, object) /\ job[q].held = step.from
            THEN [job[q] EXCEPT !.held = step.to]
            ELSE job[q]]

\* The thread that runs a call is a free one; free threads are
\* interchangeable, the first is taken.
FirstIdle(p) == pc[p] = "idle" /\ \A q \in Procs : pc[q] = "idle" => p <= q

\* What the caller observes when the call returns ret or raises err, having
\* handed the messages sent to the transport.
CallArgs(call) ==
    IF call.op = "handle_request" THEN <<call.self, call.arg, call.response_str>>
    ELSE IF call.op \in {"send_request", "send_response"} THEN <<call.self, call.arg, call.out.to>>
    ELSE IF call.op = "start_agent" THEN <<call.self, call.arg>>
    ELSE <<call.self>>

Returned(call, ret, err, sent) ==
    [op |-> call.op, args |-> CallArgs(call), mode |-> call.mode, seq |-> call.seq,
     route |-> call.route, ret |-> ret, err |-> err, sent |-> sent, object |-> call.object,
     new |-> call.new]

Goes(p, at, call) ==
    /\ pc' = [pc EXCEPT ![p] = at]
    /\ job' = [job EXCEPT ![p] = call]
    /\ last' = NoCall

Returns(p, call, ret, err, sent) ==
    /\ pc' = [pc EXCEPT ![p] = "idle"]
    /\ job' = [job EXCEPT ![p] = NoCall]
    /\ last' = Returned(call, ret, err, sent)

\* handle_request, its first line: get or create the context of the request.
handle_request(p, self, request, object) ==
    /\ FirstIdle(p)
    /\ contexts' = get_or_create_context(request.context_name)
    /\ Goes(p, "get_collaboration_type", AgentCall("handle_request", self, request, object))

\* collaboration_type = context.get_collaboration_type(request.chat_id)
ReadCollaborationType(p) ==
    /\ Goes(p, "get_conversation_history",
            [job[p] EXCEPT !.mode = get_collaboration_type(job[p].arg.chat_id)])
    /\ UNCHANGED <<contexts, ctxVars, outbox, transports, agents>>

\* get_conversation_history_if_needed, and process_request is called with
\* what it returned.
ReadHistory(p) ==
    /\ pc' = [pc EXCEPT ![p] = "process_request"]
    /\ last' = [op |-> "process_request", args |-> <<job[p].self, job[p].arg>>,
                mode |-> job[p].mode,
                history |-> get_conversation_history_if_needed(job[p].arg.chat_id, job[p].mode),
                ret |-> PyNone, err |-> "", object |-> job[p].object]
    /\ UNCHANGED <<job, contexts, ctxVars, outbox, transports, agents>>

\* The message handle_response builds for the response of the call.
Response(call, message_type) ==
    Message(call.response_str, call.self, message_type, call.arg.context_name, call.arg.chat_id)

\* process_request returns response_str and handle_response begins, with the
\* collaboration type read before process_request: nothing for no response;
\* in the history modes the response is appended to the chat's history and an
\* ACK is to go to the sender; in SEQUENTIAL mode the next agent of the
\* sequence is looked up and the response is to go to it as a request; and
\* else the response is to go to the sender.
Respond(p, response_str) ==
    LET call == [job[p] EXCEPT !.response_str = response_str]
        chat == call.arg.chat_id
        next_agent == get_next_agent_in_sequence(chat, call.self)
        found == [call EXCEPT !.seq = PyList(get_agents_sequence(chat)),
                              !.route = get_route_response_to(chat)]
    IN /\ pc[p] = "process_request"
       /\ IF ~HasResponse(response_str)
          THEN Returns(p, call, PyBool(TRUE), "", <<>>) /\ UNCHANGED llm_chat_completion
          ELSE IF UsesHistory(call.mode)
          THEN /\ append_chat_completion(chat, AssistantMessage(response_str))
               /\ Goes(p, "send", [call EXCEPT !.out = Sent("response", call.arg.sender,
                                                            Response(call, "ACK"))])
          ELSE IF call.mode = "SEQUENTIAL"
          THEN /\ IF next_agent # PyNone
                  THEN Goes(p, "send", [found EXCEPT !.out = Sent("request", next_agent.v,
                                                                  Response(call, "unset"))])
                  ELSE Goes(p, "get_route_response_to", found)
               /\ UNCHANGED llm_chat_completion
          ELSE /\ Goes(p, "send", [call EXCEPT !.out = Sent("response", call.arg.sender,
                                                            Response(call, "unset"))])
               /\ UNCHANGED llm_chat_completion
       /\ UNCHANGED <<contexts, participants, message_trace, outbox, transports, agents>>

\* The sequence has ended: context.get_route_response_to(request.chat_id) is
\* put into the debug message, where None raises TypeError, and is the
\* destination of the response.
ReadRoute(p) ==
    LET route == get_route_response_to(job[p].arg.chat_id)
    IN /\ IF route = PyNone
          THEN Returns(p, job[p], PyNone, "TypeError", <<>>)
          ELSE Goes(p, "send", [job[p] EXCEPT !.out = Sent("response", route.v,
                                                          Response(job[p], "unset"))])
       /\ UNCHANGED <<contexts, ctxVars, outbox, transports, agents>>

\* send_request / send_response, their first lines: the sender of the message
\* is set and its context is got or created.
send(p, call) ==
    /\ contexts' = get_or_create_context(call.out.message.context_name)
    /\ Goes(p, "add_participant",
            [call EXCEPT !.out = [@ EXCEPT !.message = Stamped(call.self, @)]])

SendContext(p) ==
    /\ send(p, job[p])
    /\ UNCHANGED <<ctxVars, outbox, transports, agents>>

\* context.add_participant(self.name); a name that is added on redis is a
\* write to "participants", which the threads watching the key will meet.
SendParticipant(p) ==
    /\ add_participant(job[p].self)
    /\ Goes(p, "transport", job[p])
    /\ dirty' = [q \in Procs |->
                  dirty[q] \/ (participants' # participants /\ "participants" \in watching[q])]
    /\ UNCHANGED <<contexts, message_trace, llm_chat_completion, outbox, transports, agents,
                   watching>>

\* The transport call a thread is in.
TransportOp(call) ==
    IF call.op = "start_agent" THEN "start"
    ELSE IF call.op = "stop_agent" THEN "stop"
    ELSE "send_" \o call.out.via

\* Where the agent's call goes on when its transport call has returned.
AfterTransport(call) ==
    IF call.op = "start_agent" THEN "register_agent"
    ELSE IF call.op = "stop_agent" THEN "unregister_agent"
    ELSE "trace"

\* One step of the transport call of thread p, from position at, on the
\* transport of its agent object; a frame that goes out is in outbox.  An
\* exception of the transport leaves the agent's call.
TransportMove(p, call, at) ==
    LET object == call.object
    IN \E step \in {IF object = 0 THEN [Ends(Delivering) EXCEPT !.frame = TRUE]
                     ELSE transport_do(TransportOp(call), at, transports[object], call.held,
                                       HeldBy(Waiting(p, object)))} :
       /\ transports' = IF object = 0 THEN transports
                        ELSE [transports EXCEPT ![object] = step.t]
       /\ outbox' = IF step.frame THEN Append(outbox, call.out) ELSE outbox
       /\ pc' = [pc EXCEPT ![p] = IF step.at = "raised" THEN "idle"
                                  ELSE IF step.at = "done" THEN AfterTransport(call)
                                  ELSE step.at]
       /\ job' = Moves(p, object, step,
                       IF step.at = "raised" THEN NoCall ELSE [call EXCEPT !.held = step.held])
       /\ last' = IF step.at = "raised" THEN Returned(call, PyNone, step.err, <<>>) ELSE NoCall
       /\ UNCHANGED <<contexts, ctxVars, agents>>

\* context.trace(message), and the call returns: True from handle_request.
SendTrace(p) ==
    /\ message_trace' = Append(message_trace, Traced(job[p].out.message))
    /\ Returns(p, job[p], IF job[p].op = "handle_request" THEN PyBool(TRUE) ELSE PyNone, "",
               <<job[p].out>>)
    /\ UNCHANGED <<contexts, participants, llm_chat_completion, outbox, transports, agents>>

\* start_agent, its last line: WiseAgentRegistry.register_agent.  The local
\* branch raises at once; the redis branch begins with pipe.watch("participants").
RegisterWatch(p) ==
    /\ IF use_redis
       THEN /\ watching' = [watching EXCEPT ![p] = {RegisterAgentWatchKey}]
            /\ dirty' = [dirty EXCEPT ![p] = FALSE]
            /\ Goes(p, "hexists", job[p])
       ELSE /\ Returns(p, job[p], PyNone, RegisterAgentErr(job[p].self), <<>>)
            /\ UNCHANGED <<watching, dirty>>
    /\ UNCHANGED <<contexts, ctxVars, outbox, transports, agents>>

\* register_agent on redis: pipe.hexists("agents", name); a name that is
\* taken is refused with NameError after pipe.unwatch().
RegisterCheck(p) ==
    /\ IF RegisterAgentErr(job[p].self) # ""
       THEN /\ Returns(p, job[p], PyNone, RegisterAgentErr(job[p].self), <<>>)
            /\ watching' = [watching EXCEPT ![p] = {}]
       ELSE /\ Goes(p, "execute", job[p])
            /\ UNCHANGED watching
    /\ UNCHANGED <<contexts, ctxVars, outbox, transports, agents, dirty>>

\* register_agent on redis: pipe.multi(), hset and pipe.execute().  The hset
\* is made whatever "agents" holds by now, for the key watched is
\* "participants"; a write to that since the watch makes execute() raise
\* WatchError, and the loop starts over.
RegisterStarted(p) ==
    /\ IF dirty[p]
       THEN /\ Goes(p, "register_agent", job[p])
            /\ UNCHANGED agents
       ELSE /\ agents' = DictSet(agents, job[p].self, job[p].arg)
            /\ Returns(p, job[p], PyNone, "", <<>>)
    /\ watching' = [watching EXCEPT ![p] = {}]
    /\ UNCHANGED <<contexts, ctxVars, outbox, transports, dirty>>

\* stop_agent, its last line: WiseAgentRegistry.unregister_agent.
UnregisterStopped(p) ==
    /\ agents' = IF UnregisterAgentErr(job[p].self) = "" THEN DictDel(agents, job[p].self)
                 ELSE agents
    /\ Returns(p, job[p], PyNone, UnregisterAgentErr(job[p].self), <<>>)
    /\ UNCHANGED <<contexts, ctxVars, outbox, transports>>

\* The positions of a thread inside a call of the transport.
TransportPcs == {"start", "conn2", "stop"} \cup WaitPcs

\* The positions of a thread inside a call, process_request apart.
CallPcs ==
    {"get_collaboration_type", "get_conversation_history", "get_route_response_to", "send",
     "add_participant", "transport", "trace", "register_agent", "hexists", "execute",
     "unregister_agent"} \cup TransportPcs

CallFrame == UNCHANGED <<use_redis, replay, toolVars, seqVars, phaseVars, tools, handled, snap>>

NoWatch == UNCHANGED <<watching, dirty>>

\* A thread inside a call makes its next access.
CallStep ==
    \E p \in Procs :
        /\ pc[p] \in CallPcs
        /\ CASE pc[p] = "get_collaboration_type" -> ReadCollaborationType(p) /\ NoWatch
             [] pc[p] = "get_conversation_history" -> ReadHistory(p) /\ NoWatch
             [] pc[p] = "get_route_response_to" -> ReadRoute(p) /\ NoWatch
             [] pc[p] = "send" -> SendContext(p) /\ NoWatch
             [] pc[p] = "add_participant" -> SendParticipant(p)
             [] pc[p] = "trace" -> SendTrace(p) /\ NoWatch
             [] pc[p] = "register_agent" -> RegisterWatch(p)
             [] pc[p] = "hexists" -> RegisterCheck(p)
             [] pc[p] = "execute" -> RegisterStarted(p)
             [] pc[p] = "unregister_agent" -> UnregisterStopped(p) /\ NoWatch
             [] OTHER -> TransportMove(p, job[p], pc[p]) /\ NoWatch
        /\ CallFrame

\* process_request returns on the thread that called it.
HandleResponseWith(responses) ==
    \E p \in Procs, response_str \in responses :
        /\ Respond(p, response_str)
        /\ CallFrame
        /\ NoWatch

HandleResponse == HandleResponseWith(Responses)

set_agents_sequence(chat, agents_seq) ==
    agents_sequence' = DictSet(agents_sequence, chat, agents_seq)

\* Were the whole dict rewritten instead of the chat's entry.
set_route_response_to_all(chat, agent) ==
    route_response_to' = [c \in DOMAIN route_response_to \cup {chat} |-> agent]

set_route_response_to(chat, agent) ==
    route_response_to' = DictSet(route_response_to, chat, agent)

set_collaboration_type(chat, mode) ==
    collaboration_type' = DictSet(collaboration_type, chat, mode)

\* ------------------------------------------------- specification: phases
Init ==
    /\ use_redis \in BOOLEAN
    /\ InitStore
    /\ InitProcs

PhaseFrame == UNCHANGED <<use_redis, replay, ctxVars, toolVars, seqVars, regVars, agentVars, procVars>>

SetAgentPhaseAssignments ==
    \E chat \in Chats, phases \in PhaseInputs :
        set_agent_phase_assignments(chat, phases) /\ PhaseFrame

SetCurrentPhase ==
    \E chat \in Chats, phase \in PhaseIndexes :
        set_current_phase(chat, phase) /\ PhaseFrame

GetAgentsForNextPhase ==
    \E chat \in Chats : get_agents_for_next_phase(chat) /\ PhaseFrame

RemoveRequiredAgentForCurrentPhase ==
    \E chat \in Chats, agent \in SeqAgents :
        remove_required_agent_for_current_phase(chat, agent) /\ PhaseFrame

Next ==
    \/ SetAgentPhaseAssignments
    \/ SetCurrentPhase
    \/ GetAgentsForNextPhase
    \/ RemoveRequiredAgentForCurrentPhase

Spec == Init /\ [][Next]_vars

\* ------------------------------- specification: directory and participants
DirFrame == UNCHANGED <<use_redis, replay, message_trace, llm_chat_completion, toolVars, seqVars, phaseVars,
                        tools, agentVars, procVars>>

\* The names callers ask the registry for.
RegistryNames == ContextNames \cup {"ctx2"}

RegisterAgent ==
    \E name \in SeqAgents, description \in Descriptions :
        /\ register_agent(name, description)
        /\ UNCHANGED <<participants, contexts>>
        /\ DirFrame

UnregisterAgent ==
    \E name \in SeqAgents :
        /\ unregister_agent(name)
        /\ UNCHANGED <<participants, contexts>>
        /\ DirFrame

AddParticipant ==
    \E agent_name \in SeqAgents :
        /\ Len(participants) < MaxParticipants
        /\ add_participant(agent_name)
        /\ last' = Ok("add_participant", <<agent_name>>, PyNone)
        /\ UNCHANGED <<agents, contexts>>
        /\ DirFrame

GetOrCreateContext ==
    \E name \in RegistryNames :
        /\ contexts' = get_or_create_context(name)
        /\ last' = [op |-> "get_or_create_context", args |-> <<name>>,
                    ret |-> ContextReturned(name), err |-> "",
                    created |-> ~does_context_exist(name)]
        /\ UNCHANGED <<agents, participants>>
        /\ DirFrame

RemoveContext ==
    \E name \in RegistryNames :
        /\ remove_context(name)
        /\ UNCHANGED <<agents, participants>>
        /\ DirFrame

NextDir ==
    \/ RegisterAgent
    \/ UnregisterAgent
    \/ AddParticipant
    \/ GetOrCreateContext
    \/ RemoveContext

SpecDir == Init /\ [][NextDir]_vars

\* -------------------------------------------------- specification: agents
Senders == {"U"}
Routes == {"R"}
SequenceInputs == SeqsUpTo(SeqAgents, MaxSeqLen)
Requests == [sender : Senders, chat_id : Chats, context_name : ContextNames]
\* Requests of a chat and requests that carry no chat id.
AnyRequests == [sender : Senders, chat_id : Chats \cup {NoChatId}, context_name : ContextNames]
\* Messages an agent is asked to send: their sender field names somebody else.
Outgoing == {Message("m1", sender, "unset", context_name, chat) :
                sender \in Senders, context_name \in ContextNames, chat \in Chats}

AgentFrame == UNCHANGED <<use_redis, replay, toolVars, phaseVars, agents, tools, transports, procVars>>

SetRouteResponseTo ==
    \E chat \in Chats, agent \in Routes :
        /\ set_route_response_to(chat, agent)
        /\ last' = Ok("set_route_response_to", <<chat>>, PyNone)
        /\ UNCHANGED <<ctxVars, agents_sequence, collaboration_type, contexts, agentVars>>
        /\ AgentFrame

SetCollaborationType ==
    \E chat \in Chats, mode \in CollaborationTypes :
        /\ set_collaboration_type(chat, mode)
        /\ last' = Ok("set_collaboration_type", <<chat>>, PyNone)
        /\ UNCHANGED <<ctxVars, agents_sequence, route_response_to, contexts, agentVars>>
        /\ AgentFrame

HandlerFrame == UNCHANGED <<use_redis, replay, ctxVars, toolVars, seqVars, phaseVars, agents, tools,
                            outbox, transports, snap, watching, dirty>>

\* The agents whose listener thread is inside handle_request.
Busy == {job[p].self : p \in {q \in Procs : job[q].op = "handle_request"}}

\* A request is delivered to agent self on the listener thread of its
\* transport, which takes one message at a time: handle_request begins, on a
\* transport that delivers.
HandleRequestFrom(requests) ==
    \E p \in Procs, self \in Agents \ Busy, request \in requests :
        /\ handled < MaxHandled
        /\ handled' = handled + 1
        /\ handle_request(p, self, request, 0)
        /\ HandlerFrame

HandleRequest == HandleRequestFrom(Requests)

\* An agent is told to send a message: send_request / send_response begins,
\* on a transport that delivers.
SendVia(via, bound) ==
    \E p \in Procs, self \in SeqAgents, message \in Outgoing, dest_agent_name \in Routes :
        /\ FirstIdle(p)
        /\ handled < bound
        /\ handled' = handled + 1
        /\ send(p, [AgentCall("send_" \o via, self, message, 0)
                      EXCEPT !.out = Sent(via, dest_agent_name, message)])
        /\ HandlerFrame

SendRequest == SendVia("request", MaxHandled)

SendResponse == SendVia("response", MaxHandled)

\* What calls of a setter made before have left in a store: nothing for the
\* chat, or one of the values.
Settings(values) == UNION {[chats -> values] : chats \in SUBSET Chats}

\* The store before the agents are called: set_agents_sequence,
\* set_route_response_to and set_collaboration_type may have been called for
\* the chat.
InitAgent ==
    /\ use_redis \in BOOLEAN
    /\ participants = <<>>
    /\ message_trace = <<>>
    /\ llm_chat_completion = EmptyDict
    /\ llm_required_tool_call = EmptyDict
    /\ llm_available_tools_in_chat = EmptyDict
    /\ queries = EmptyDict
    /\ agents_sequence \in Settings(SequenceInputs)
    /\ route_response_to \in Settings(Routes)
    /\ agent_phase_assignments = EmptyDict
    /\ current_phase = EmptyDict
    /\ required_agents_for_current_phase = EmptyDict
    /\ collaboration_type \in Settings(CollaborationTypes)
    /\ agents = EmptyDict
    /\ tools = EmptyDict
    /\ contexts = EmptyDict
    /\ outbox = <<>>
    /\ handled = 0
    /\ transports = <<>>
    /\ replay = NoReplay
    /\ last = NoCall
    /\ InitProcs

NextAgent ==
    \/ HandleRequest
    \/ HandleResponse
    \/ SendRequest
    \/ SendResponse
    \/ CallStep

SpecAgent == InitAgent /\ [][NextAgent]_vars

\* ------------------------------------------ specification: agents sending
\* Agents are told to send at the same time, MaxAgentCalls messages in all:
\* their threads take their steps in any order.
SendRequestMeanwhile == SendVia("request", MaxAgentCalls)

SendResponseMeanwhile == SendVia("response", MaxAgentCalls)

NextSend == SendRequestMeanwhile \/ SendResponseMeanwhile \/ CallStep

SpecSend == Init /\ [][NextSend]_vars

\* ------------------------ specification: chat history and tool calls
ListsFrame == UNCHANGED <<use_redis, replay, participants, message_trace, llm_available_tools_in_chat,
                          queries, seqVars, phaseVars, regVars, agentVars, procVars>>

AppendChatCompletion ==
    \E chat \in Chats, message \in Records :
        /\ Len(ChatHistory(chat)) < MaxHistory
        /\ append_chat_completion(chat, message)
        /\ last' = Ok("append_chat_completion", <<chat, message>>, PyNone)
        /\ UNCHANGED llm_required_tool_call
        /\ ListsFrame

AppendRequiredToolCall ==
    \E chat \in Chats, tool_name \in Tools :
        /\ Len(get_required_tool_calls(chat)) < MaxToolCalls
        /\ append_required_tool_call(chat, tool_name)
        /\ last' = Ok("append_required_tool_call", <<chat, tool_name>>, PyNone)
        /\ UNCHANGED llm_chat_completion
        /\ ListsFrame

RemoveRequiredToolCall ==
    \E chat \in Chats, tool_name \in Tools :
        /\ remove_required_tool_call(chat, tool_name)
        /\ UNCHANGED llm_chat_completion
        /\ ListsFrame

GetRequiredToolCalls ==
    \E chat \in Chats :
        /\ last' = Ok("get_required_tool_calls", <<chat>>, PyList(get_required_tool_calls(chat)))
        /\ UNCHANGED <<llm_chat_completion, llm_required_tool_call>>
        /\ ListsFrame

NextLists ==
    \/ AppendChatCompletion
    \/ AppendRequiredToolCall
    \/ RemoveRequiredToolCall
    \/ GetRequiredToolCalls

SpecLists == Init /\ [][NextLists]_vars

\* --------------------------------- specification: agents in a shared chat
\* Requests with and without a chat id arrive while the chat's history grows.
HandleAnyRequest == HandleRequestFrom(AnyRequests)

\* The store before the agents are called: set_collaboration_type may have been
\* called for the chat.
InitChat ==
    /\ use_redis \in BOOLEAN
    /\ participants = <<>>
    /\ message_trace = <<>>
    /\ llm_chat_completion = EmptyDict
    /\ llm_required_tool_call = EmptyDict
    /\ llm_available_tools_in_chat = EmptyDict
    /\ queries = EmptyDict
    /\ agents_sequence = EmptyDict
    /\ route_response_to = EmptyDict
    /\ agent_phase_assignments = EmptyDict
    /\ current_phase = EmptyDict
    /\ required_agents_for_current_phase = EmptyDict
    /\ collaboration_type \in Settings(CollaborationTypes)
    /\ agents = EmptyDict
    /\ tools = EmptyDict
    /\ contexts = EmptyDict
    /\ outbox = <<>>
    /\ handled = 0
    /\ transports = <<>>
    /\ replay = NoReplay
    /\ last = NoCall
    /\ InitProcs

NextChat ==
    \/ AppendChatCompletion
    \/ HandleAnyRequest
    \/ HandleResponse
    \/ CallStep

SpecChat == InitChat /\ [][NextChat]_vars

\* ------------------------------------------------ specification: getters
\* Chat ids callers ask about: "c2" is one no mutator is ever called on.
QueryChats == Chats \cup {"c2"}

GetFrame == UNCHANGED <<use_redis, replay, ctxVars, llm_required_tool_call, agents_sequence,
                        phaseVars, regVars, agentVars, procVars>>

AppendAvailableToolInChat ==
    \E chat \in Chats, tool_param \in Tools :
        /\ Len(get_available_tools_in_chat(chat)) < MaxToolCalls
        /\ append_available_tool_in_chat(chat, tool_param)
        /\ last' = Ok("append_available_tool_in_chat", <<chat, tool_param>>, PyNone)
        /\ UNCHANGED <<queries, route_response_to, collaboration_type>>
        /\ GetFrame

AddQuery ==
    \E chat \in Chats, query \in Queries :
        /\ Len(get_queries(chat)) < MaxQueries
        /\ add_query(chat, query)
        /\ last' = Ok("add_query", <<chat, query>>, PyNone)
        /\ UNCHANGED <<llm_available_tools_in_chat, route_response_to, collaboration_type>>
        /\ GetFrame

Get ==
    \E getter \in Getters, chat \in QueryChats \cup {NoChatId} :
        /\ chat = NoChatId => getter = "get_collaboration_type"
        /\ last' = Ok(getter, <<chat>>, GetterReply(getter, chat))
        /\ UNCHANGED <<llm_available_tools_in_chat, queries, route_response_to, collaboration_type>>
        /\ GetFrame

NextGet ==
    \/ SetCollaborationType
    \/ SetRouteResponseTo
    \/ AppendAvailableToolInChat
    \/ AddQuery
    \/ Get

SpecGet == Init /\ [][NextGet]_vars

\* -------------------------------------------- specification: tool directory
ToolInputs == {WiseAgentTool(name, description, agent_tool) :
                  name \in Tools, description \in Descriptions, agent_tool \in BOOLEAN}

ToolsFrame == UNCHANGED <<use_redis, replay, ctxVars, toolVars, seqVars, phaseVars, agents, contexts,
                          agentVars, procVars>>

\* WiseAgentTool(...) registers the tool it constructs.
RegisterTool ==
    \E tool \in ToolInputs :
        /\ tools' = register_tool(tools, tool)
        /\ last' = [op |-> "register_tool", args |-> <<tool>>, ret |-> PyNone, err |-> "",
                    replaced |-> HasKey(tools, tool.name)]
        /\ ToolsFrame

GetTool ==
    \E tool_name \in Tools :
        /\ last' = Ok("get_tool", <<tool_name>>, get_tool(tool_name))
        /\ UNCHANGED tools
        /\ ToolsFrame

NextTools ==
    \/ RegisterTool
    \/ GetTool

SpecTools == Init /\ [][NextTools]_vars

\* ------------------------------ specification: processes sharing one redis
\* Each process makes one call.  A call on the redis backend is a sequence of
\* commands; commands of different processes interleave.  WATCH key makes the
\* EXEC of the watching connection fail (redis.WatchError) when any client has
\* written the key in between.
ContentOf == <<"m1", "m2", "m3", "m4">>

AppendChatWatchKeyWrong == "participants"

AppendChatWatchKey == "llm_chat_completion"

\* Were the removal to watch another key than the one it rewrites.
WatchKeyElsewhere(call) ==
    IF call.op = "append_chat_completion" THEN AppendChatWatchKey
    ELSE IF call.op = "add_participant" THEN AddParticipantWatchKey
    ELSE IF call.op = "remove_required_agent_for_current_phase" THEN "current_phase"
    ELSE IF call.op = "append_required_tool_call" THEN "llm_required_tool_call"
    ELSE IF call.op = "add_query" THEN "queries"
    ELSE RegisterAgentWatchKey

WatchKey(call) ==
    IF call.op = "append_chat_completion" THEN AppendChatWatchKey
    ELSE IF call.op = "add_participant" THEN AddParticipantWatchKey
    ELSE IF call.op = "remove_required_agent_for_current_phase"
    THEN "required_agents_for_current_phase"
    ELSE IF call.op = "append_required_tool_call" THEN "llm_required_tool_call"
    ELSE IF call.op = "add_query" THEN "queries"
    ELSE RegisterAgentWatchKey

WrittenKey(call) ==
    IF call.op = "append_chat_completion" THEN "llm_chat_completion"
    ELSE IF call.op = "add_participant" THEN "participants"
    ELSE IF call.op = "remove_required_agent_for_current_phase"
    THEN "required_agents_for_current_phase"
    ELSE IF call.op = "append_required_tool_call" THEN "llm_required_tool_call"
    ELSE IF call.op = "add_query" THEN "queries"
    ELSE "agents"

Calls(p) ==
    {[op |-> "append_chat_completion", chat |-> chat,
      message |-> AssistantMessage(ContentOf[p]), err |-> "", retries |-> 0] : chat \in Chats}
    \cup {[op |-> "add_participant", agent_name |-> a, err |-> "", retries |-> 0] : a \in SeqAgents}
    \cup {[op |-> "register_agent", name |-> a, description |-> d, err |-> "", retries |-> 0] :
            a \in SeqAgents, d \in Descriptions}

NetFrame == UNCHANGED <<use_redis, replay, message_trace, llm_available_tools_in_chat, seqVars,
                        agent_phase_assignments, contexts, tools, agentVars, last>>
StoreUnchanged == UNCHANGED <<participants, llm_chat_completion, agents, llm_required_tool_call,
                              required_agents_for_current_phase, queries, current_phase>>

Call(p) ==
    /\ pc[p] = "idle"
    /\ \E call \in Calls(p) : job' = [job EXCEPT ![p] = call]
    /\ pc' = [pc EXCEPT ![p] = "watch"]
    /\ UNCHANGED <<snap, watching, dirty>>
    /\ StoreUnchanged /\ NetFrame

\* pipe.watch(key)
Watch(p) ==
    /\ pc[p] = "watch"
    /\ watching' = [watching EXCEPT ![p] = {WatchKey(job[p])}]
    /\ dirty' = [dirty EXCEPT ![p] = FALSE]
    /\ pc' = [pc EXCEPT ![p] = IF job[p].op = "append_required_tool_call" THEN "read" ELSE "check"]
    /\ UNCHANGED <<job, snap>>
    /\ StoreUnchanged /\ NetFrame

\* pipe.exists / pipe.hexists: is there something stored already?
Exists(call) ==
    IF call.op = "append_chat_completion" THEN HasKey(llm_chat_completion, call.chat)
    ELSE IF call.op = "add_participant" THEN participants # <<>>
    ELSE IF call.op = "remove_required_agent_for_current_phase"
    THEN HasKey(required_agents_for_current_phase, call.chat)
    ELSE IF call.op = "append_required_tool_call" THEN HasKey(llm_required_tool_call, call.chat)
    ELSE IF call.op = "add_query" THEN HasKey(queries, call.chat)
    ELSE HasKey(agents, call.name)

CheckAbsent(p) ==
    /\ pc[p] = "check"
    /\ ~Exists(job[p])
    /\ job[p].op \notin {"remove_required_agent_for_current_phase", "add_query"}
    /\ snap' = [snap EXCEPT ![p] = PyNone]
    /\ pc' = [pc EXCEPT ![p] = "exec"]
    /\ UNCHANGED <<job, watching, dirty>>
    /\ StoreUnchanged /\ NetFrame

CheckPresent(p) ==
    /\ pc[p] = "check"
    /\ Exists(job[p])
    /\ job[p].op # "register_agent"
    /\ pc' = [pc EXCEPT ![p] = "read"]
    /\ UNCHANGED <<job, snap, watching, dirty>>
    /\ StoreUnchanged /\ NetFrame

\* register_agent: the name is taken; unwatch and raise NameError.
RegisterConflict(p) ==
    /\ pc[p] = "check"
    /\ Exists(job[p])
    /\ job[p].op = "register_agent"
    /\ job' = [job EXCEPT ![p].err = "NameError"]
    /\ watching' = [watching EXCEPT ![p] = {}]
    /\ pc' = [pc EXCEPT ![p] = "done"]
    /\ UNCHANGED <<snap, dirty>>
    /\ StoreUnchanged /\ NetFrame

\* append_chat_completion: hget and unpickle the stored list.
ReadChat(p) ==
    /\ pc[p] = "read"
    /\ job[p].op = "append_chat_completion"
    /\ snap' = [snap EXCEPT ![p] = PyList(llm_chat_completion[job[p].chat])]
    /\ pc' = [pc EXCEPT ![p] = "exec"]
    /\ UNCHANGED <<job, watching, dirty>>
    /\ StoreUnchanged /\ NetFrame

\* add_participant: lrange; when the name is among the replies unwatch and
\* return, otherwise go on to rpush it.
ReadParticipants(p) ==
    /\ pc[p] = "read"
    /\ job[p].op = "add_participant"
    /\ IF NotInList(PyStr(job[p].agent_name), participants)
       THEN /\ pc' = [pc EXCEPT ![p] = "exec"]
            /\ UNCHANGED watching
       ELSE /\ pc' = [pc EXCEPT ![p] = "done"]
            /\ watching' = [watching EXCEPT ![p] = {}]
    /\ UNCHANGED <<job, snap, dirty>>
    /\ StoreUnchanged /\ NetFrame

\* pipe.execute() raises WatchError: the loop starts over.
WatchError(p) ==
    /\ pc[p] = "exec"
    /\ dirty[p]
    /\ watching' = [watching EXCEPT ![p] = {}]
    /\ job' = [job EXCEPT ![p].retries = @ + 1]
    /\ pc' = [pc EXCEPT ![p] = "watch"]
    /\ UNCHANGED <<snap, dirty>>
    /\ StoreUnchanged /\ NetFrame

\* The list append_chat_completion writes back: [messages], or the list it read
\* with messages appended.
AppendCommitValue(read, message) ==
    IF read = PyNone THEN <<message>> ELSE Append(read.v, message)

\* pipe.multi(); <write>; pipe.execute() succeeds and the call returns.
Commit(p) ==
    /\ pc[p] = "exec"
    /\ ~dirty[p]
    /\ IF job[p].op = "append_chat_completion"
       THEN /\ llm_chat_completion' =
                 DictSet(llm_chat_completion, job[p].chat, AppendCommitValue(snap[p], job[p].message))
            /\ UNCHANGED <<participants, agents, llm_required_tool_call,
                           required_agents_for_current_phase, queries, current_phase>>
       ELSE IF job[p].op = "add_participant"
       THEN /\ participants' = Append(participants, Stored(PyStr(job[p].agent_name)))
            /\ UNCHANGED <<llm_chat_completion, agents, llm_required_tool_call,
                           required_agents_for_current_phase, queries, current_phase>>
       ELSE IF job[p].op = "remove_required_agent_for_current_phase"
       THEN /\ required_agents_for_current_phase' =
                 IF Len(snap[p].v) = 0
                 THEN DictDel(required_agents_for_current_phase, job[p].chat)
                 ELSE DictSet(required_agents_for_current_phase, job[p].chat, snap[p].v)
            /\ UNCHANGED <<llm_chat_completion, participants, agents, llm_required_tool_call, queries, current_phase>>
       ELSE IF job[p].op = "append_required_tool_call"
       THEN /\ llm_required_tool_call' =
                 DictSet(llm_required_tool_call, job[p].chat, Append(snap[p].v, job[p].tool_name))
            /\ UNCHANGED <<llm_chat_completion, participants, agents,
                           required_agents_for_current_phase, queries, current_phase>>
       ELSE IF job[p].op = "add_query"
       THEN /\ queries' = DictSet(queries, job[p].chat, Append(snap[p].v, job[p].query))
            /\ UNCHANGED <<llm_chat_completion, participants, agents, llm_required_tool_call,
                           required_agents_for_current_phase, current_phase>>
       ELSE /\ agents' = DictSet(agents, job[p].name, job[p].description)
            /\ UNCHANGED <<llm_chat_completion, participants, llm_required_tool_call,
                           required_agents_for_current_phase, queries, current_phase>>
    /\ dirty' = [q \in Procs |-> dirty[q] \/ (q # p /\ WrittenKey(job[p]) \in watching[q])]
    /\ watching' = [watching EXCEPT ![p] = {}]
    /\ pc' = [pc EXCEPT ![p] = "done"]
    /\ UNCHANGED <<job, snap>>
    /\ NetFrame

InitNet ==
    /\ use_redis = TRUE
    /\ InitStore
    /\ InitProcs

NextNet ==
    \E p \in Procs :
        \/ Call(p)
        \/ Watch(p)
        \/ CheckAbsent(p)
        \/ CheckPresent(p)
        \/ RegisterConflict(p)
        \/ ReadChat(p)
        \/ ReadParticipants(p)
        \/ WatchError(p)
        \/ Commit(p)

SpecNet == InitNet /\ [][NextNet]_vars

\* ======================================================== claims: phases
LastChat == last.args[1]

\* C5: after set_agent_phase_assignments(chat, phases), set_current_phase(chat, p)
\* with 0 <= p < len(phases) succeeds, stores p as the current phase and stores
\* phases[p] (same agents, same order) as the required agents, on both backends.
C5_SetCurrentPhaseSnapshots ==
    (/\ last.op = "set_current_phase"
     /\ HasKey(agent_phase_assignments, LastChat)
     /\ InRange(agent_phase_assignments[LastChat], last.args[2]))
    => /\ last.err = ""
       /\ get_current_phase(LastChat) = PyInt(last.args[2])
       /\ HasKey(required_agents_for_current_phase, LastChat)
       /\ required_agents_for_current_phase[LastChat]
            = Item(agent_phase_assignments[LastChat], last.args[2])

C5_Witness ==
    /\ last.op = "set_current_phase"
    /\ last.err = ""
    /\ last.args[2] = 1
    /\ get_agent_phase_assignments(LastChat) = <<<<"A">>, <<"B", "A">>>>
    /\ get_required_agents_for_current_phase(LastChat) = <<"B", "A">>

\* C6 (as claimed): remove_required_agent_for_current_phase(chat, agent) removes
\* exactly one entry for agent; when that leaves the list empty the key for chat
\* is deleted, on both backends.
C6_RemoveDeletesEmptyKey ==
    [][(/\ last'.op = "remove_required_agent_for_current_phase"
        /\ last'.err = ""
        /\ HasKey(required_agents_for_current_phase, last'.args[1]))
       => LET chat == last'.args[1]
              rest == ListRemove(required_agents_for_current_phase[chat], last'.args[2])
          IN IF rest = <<>>
             THEN ~HasKey(required_agents_for_current_phase', chat)
             ELSE /\ HasKey(required_agents_for_current_phase', chat)
                  /\ required_agents_for_current_phase'[chat] = rest]_vars

\* C7: with a current phase set, get_agents_for_next_phase(chat) moves to phase
\* current + 1 and returns that phase's agents when current + 1 is a valid index;
\* at the last phase it returns None and leaves the current phase and the
\* required agents as they were.
C7_NextPhaseAdvancesOrNone ==
    [][(/\ last'.op = "get_agents_for_next_phase"
        /\ HasKey(current_phase, last'.args[1]))
       => LET chat == last'.args[1]
              phases == get_agent_phase_assignments(chat)
              nxt == current_phase[chat] + 1
          IN IF InRange(phases, nxt)
             THEN /\ last'.err = ""
                  /\ last'.ret = PyList(Item(phases, nxt))
                  /\ current_phase'[chat] = nxt
             ELSE (nxt = Len(phases))
                  => /\ last'.err = ""
                     /\ last'.ret = PyNone
                     /\ UNCHANGED <<current_phase, required_agents_for_current_phase>>]_vars

C7_Witness ==
    /\ last.op = "get_agents_for_next_phase"
    /\ last.err = ""
    /\ last.ret = PyNone
    /\ Len(get_agent_phase_assignments(LastChat)) = 2
    /\ get_current_phase(LastChat) = PyInt(1)

PhaseNeverDecreases ==
    \A chat \in DOMAIN current_phase :
        /\ chat \in DOMAIN current_phase'
        /\ current_phase'[chat] >= current_phase[chat]

\* With one caller at a time the phase goes down in set_current_phase only,
\* which stores a lower phase number as it stores any other.
SequentialPhaseMonotonicUnlessSet ==
    [][last'.op # "set_current_phase" => PhaseNeverDecreases]_vars

\* ================================== claims: directory and participants
\* C3 (as claimed): on both backends register_agent(name, description) fails
\* with a naming conflict and changes nothing when name is registered, and
\* inserts name -> description when it is not.
C3_RegisterAgentInsertsOrConflicts ==
    [][last'.op = "register_agent"
       => IF HasKey(agents, last'.args[1])
          THEN last'.err = "NameError" /\ agents' = agents
          ELSE last'.err = "" /\ agents' = DictSet(agents, last'.args[1], last'.args[2])]_vars

\* C9 (as claimed): on both backends, after any sequence of add_participant
\* calls every agent id occurs at most once in participants, and adding an id
\* that is present leaves participants unchanged.
C9_AddParticipantIdempotent ==
    [][/\ \A a \in SeqAgents : Occurrences(participants', a) <= 1
       /\ (last'.op = "add_participant" /\ Occurrences(participants, last'.args[1]) > 0)
            => participants' = participants]_vars

\* ========================================================= claims: agents
\* The last call was a handle_request in SEQUENTIAL mode whose callback returned
\* a non-empty response, for a chat with a route_response_to.  last.seq and
\* last.route are the sequence and the route of the chat as the call read them.
SequentialRouted ==
    /\ last.op = "handle_request"
    /\ last.mode = "SEQUENTIAL"
    /\ last.args[3] # ""
    /\ last.route # PyNone

\* The message handle_response builds from the response text.
LastMessage ==
    Message(last.args[3], last.args[1], "unset", last.args[2].context_name, last.args[2].chat_id)

SentExactly(via, dest) ==
    /\ last.err = ""
    /\ last.sent = <<Sent(via, dest, LastMessage)>>
    /\ \E i \in DOMAIN outbox : outbox[i] = last.sent[1]

\* C2 (as claimed): in SEQUENTIAL mode, when the agent at any position i of the
\* sequence s handles a request and answers, exactly one request carrying the
\* answer goes to s[i+1] if i is not the last position, and exactly one response
\* goes to route_response_to if i is the last position or the agent is not in s.
C2_SequentialRoutingByPosition ==
    SequentialRouted
    => LET self == last.args[1]
           s == last.seq.v
       IN /\ \A i \in DOMAIN s :
                s[i] = self
                => IF i < Len(s) THEN SentExactly("request", s[i + 1])
                   ELSE SentExactly("response", last.route.v)
          /\ self \notin Range(s) => SentExactly("response", last.route.v)

\* C2 (amended): the same with i the first position at which the agent's name
\* occurs in s.
C2_SequentialRoutingByFirstOccurrence ==
    SequentialRouted
    => LET self == last.args[1]
           s == last.seq.v
           i == IndexOf(s, self)
       IN IF i # 0 /\ i < Len(s) THEN SentExactly("request", s[i + 1])
          ELSE SentExactly("response", last.route.v)

C2_Witness ==
    /\ SequentialRouted
    /\ last.args[1] = "A"
    /\ last.seq = PyList(<<"A", "B">>)
    /\ SentExactly("request", "B")

\* ====================================================== claims: processes
AllDone == \A p \in Procs : pc[p] = "done"

Appenders(chat) ==
    {p \in Procs : job[p].op = "append_chat_completion" /\ job[p].chat = chat}

Registrants(name) == {p \in Procs : job[p].op = "register_agent" /\ job[p].name = name}

Adders(agent_name) ==
    {p \in Procs : job[p].op = "add_participant" /\ job[p].agent_name = agent_name}

\* C1: on redis, however the commands of concurrent append_chat_completion calls
\* on one chat interleave, the chat's history holds exactly the records of the
\* calls that have returned, each once: no append is lost.
C1_NoLostAppend ==
    \A chat \in Chats :
        LET returned == {p \in Appenders(chat) : pc[p] = "done"}
        IN /\ \A p \in returned : Count(ChatHistory(chat), job[p].message) = 1
           /\ AllDone => Len(ChatHistory(chat)) = Cardinality(returned)

C1_Witness ==
    /\ AllDone
    /\ \A p \in Procs : job[p].op = "append_chat_completion"
    /\ \E p \in Procs : job[p].retries > 0
    /\ \E chat \in Chats : Len(ChatHistory(chat)) = NumProcs

\* C4 (as claimed): on redis, when processes concurrently register the same
\* name, exactly one call succeeds, the others fail with a naming conflict, and
\* the stored description is that of the successful call.
C4_OneRegistrationWins ==
    AllDone
    => \A name \in SeqAgents :
          Registrants(name) # {}
          => \E p \in Registrants(name) :
                /\ job[p].err = ""
                /\ HasKey(agents, name) /\ agents[name] = job[p].description
                /\ \A q \in Registrants(name) \ {p} : job[q].err = "NameError"

\* C10 (as claimed): on redis, when processes concurrently add the same agent id
\* participants ends with exactly one occurrence of it, and ids added by
\* different processes all end up present.
C10_ConcurrentAddParticipant ==
    AllDone
    => \A a \in SeqAgents : Adders(a) # {} => Occurrences(participants, a) = 1

\* ============================ claims: chat history and tool calls
\* C11: with one caller, after N >= 0 append_chat_completion calls r1..rN on a
\* chat the records read back for the chat are exactly r1..rN in append order:
\* none before the first call, and each call adds its record at the end while
\* nothing else changes what is read.
C11_AppendReadBack ==
    /\ \A chat \in Chats : ChatHistory(chat) = <<>>
    /\ [][\A chat \in Chats :
            ChatHistory(chat)' =
                IF last'.op = "append_chat_completion" /\ last'.args[1] = chat
                THEN Append(ChatHistory(chat), last'.args[2])
                ELSE ChatHistory(chat)]_vars

C11_Witness ==
    /\ last.op = "append_chat_completion"
    /\ ChatHistory(last.args[1]) = <<AssistantMessage("r1"), [role |-> "user", content |-> "q1"]>>

\* C12: on both backends, append_required_tool_call(chat, t) from no pending
\* calls followed by remove_required_tool_call(chat, t) leaves no key for chat
\* (not a key holding an empty list), and get_required_tool_calls(chat) is empty.
C12_AppendRemoveDeletesKey ==
    [][(/\ last.op = "append_required_tool_call"
        /\ llm_required_tool_call[last.args[1]] = <<last.args[2]>>
        /\ last'.op = "remove_required_tool_call"
        /\ last'.args = last.args)
       => /\ last'.err = ""
          /\ ~HasKey(llm_required_tool_call', last.args[1])
          /\ get_required_tool_calls(last.args[1])' = <<>>]_vars

C12_Witness ==
    /\ last.op = "remove_required_tool_call"
    /\ last.err = ""
    /\ ~HasKey(llm_required_tool_call, last.args[1])

\* ======================================================= claims: getters
\* Nothing is stored for the chat in any of the context's maps.
NothingStored(chat) ==
    /\ ~HasKey(llm_chat_completion, chat)
    /\ ~HasKey(llm_required_tool_call, chat)
    /\ ~HasKey(llm_available_tools_in_chat, chat)
    /\ ~HasKey(queries, chat)
    /\ ~HasKey(agents_sequence, chat)
    /\ ~HasKey(route_response_to, chat)
    /\ ~HasKey(agent_phase_assignments, chat)
    /\ ~HasKey(current_phase, chat)
    /\ ~HasKey(required_agents_for_current_phase, chat)
    /\ ~HasKey(collaboration_type, chat)

NeutralDefault(getter) ==
    IF getter \in ListGetters THEN PyList(<<>>)
    ELSE IF getter \in OptionalGetters THEN PyNone
    ELSE PyEnum("INDEPENDENT")

\* C13 (as claimed): for a chat id no mutator was called on, every getter
\* returns its neutral default without raising, on both backends: an empty list
\* for the list getters, None for route_response_to, current phase and current
\* query, INDEPENDENT for the collaboration type.
C13_GettersDefault ==
    (last.op \in Getters /\ last.args[1] \in QueryChats /\ NothingStored(last.args[1]))
    => last.err = "" /\ last.ret = NeutralDefault(last.op)

\* C14 (as claimed): get_collaboration_type(chat) returns the type last stored
\* by set_collaboration_type(chat, .), and INDEPENDENT when chat is None or has
\* no type stored, on both backends.
C14_CollaborationTypeDefault ==
    last.op = "get_collaboration_type"
    => last.ret = IF HasKey(collaboration_type, last.args[1])
                  THEN PyEnum(collaboration_type[last.args[1]])
                  ELSE PyEnum("INDEPENDENT")

\* ========================================= claims: agents in a shared chat
\* A handle_request call takes several steps of its thread.  HandlerStep(p):
\* the step is one of thread p inside handle_request, after its first line;
\* job[p].mode is the collaboration type the call read.  StepResponse(p) is
\* what process_request returned to the call, "" before it has.
HandlerStep(p) == pc'[p] # pc[p] /\ job[p].op = "handle_request"

StepResponse(p) ==
    IF pc[p] # "process_request" THEN job[p].response_str
    ELSE IF pc'[p] = "idle" THEN last'.args[3] ELSE job'[p].response_str

\* The step is one of a handle_request call, its first line included.
HandlesRequest ==
    \E p \in Procs : pc'[p] # pc[p] /\ "handle_request" \in {job[p].op, job'[p].op}

\* The message a handle_request call sends to dest for the step's response.
StepMessage(p, via, dest, message_type) ==
    Sent(via, dest, Message(StepResponse(p), job[p].self, message_type,
                            job[p].arg.context_name, job[p].arg.chat_id))

\* C15 (as claimed): the history handle_request gives to process_request is the
\* chat's stored history, the empty list when nothing was recorded, when the
\* mode is PHASED or CHAT, and the empty list when the mode is SEQUENTIAL or
\* INDEPENDENT or the request has no chat id.
C15_HistoryGiven ==
    [][last'.op = "process_request"
       => LET chat == last'.args[2].chat_id
          IN last'.history = IF chat # NoChatId /\ last'.mode \in {"PHASED", "CHAT"}
                             THEN PyList(ChatHistory(chat))
                             ELSE PyList(<<>>)]_vars

\* C16: in PHASED or CHAT mode with a non-empty response, handle_request appends
\* the one record {role: assistant, content: response} to the chat's history and
\* sends one ACK message to request.sender by send_response; it sends no request
\* and leaves current_phase and required_agents_for_current_phase alone.
C16_PhasedAppendsAndAcks ==
    [][\A p \in Procs :
         (HandlerStep(p) /\ job[p].mode \in {"PHASED", "CHAT"} /\ StepResponse(p) # "")
         => LET chat == job[p].arg.chat_id
                ack == StepMessage(p, "response", job[p].arg.sender, "ACK")
            IN /\ IF pc[p] = "process_request"
                  THEN /\ HasKey(llm_chat_completion', chat)
                       /\ llm_chat_completion'[chat]
                            = Append(ChatHistory(chat),
                                     [role |-> "assistant", content |-> StepResponse(p)])
                  ELSE UNCHANGED llm_chat_completion
               /\ outbox' = IF pc[p] = "transport" THEN Append(outbox, ack) ELSE outbox
               /\ pc'[p] = "idle" => (pc[p] = "trace" /\ last'.err = "" /\ last'.sent = <<ack>>)
               /\ UNCHANGED <<current_phase, required_agents_for_current_phase>>]_vars

C16_Witness ==
    /\ last.op = "handle_request"
    /\ last.mode = "CHAT"
    /\ last.args[3] = "r1"
    /\ Len(ChatHistory(last.args[2].chat_id)) = 2
    /\ outbox # <<>> /\ outbox[Len(outbox)].message.message_type = "ACK"

\* C17: when the collaboration type is INDEPENDENT, not set or anything else
\* than PHASED, CHAT and SEQUENTIAL, a non-empty response goes out as one
\* message to request.sender by send_response, and the history is not changed.
C17_IndependentResponds ==
    [][\A p \in Procs :
         (HandlerStep(p) /\ job[p].mode \notin {"", "PHASED", "CHAT", "SEQUENTIAL"}
            /\ StepResponse(p) # "")
         => LET response == StepMessage(p, "response", job[p].arg.sender, "unset")
            IN /\ outbox' = IF pc[p] = "transport" THEN Append(outbox, response) ELSE outbox
               /\ pc'[p] = "idle" => (pc[p] = "trace" /\ last'.err = "" /\ last'.sent = <<response>>)
               /\ UNCHANGED llm_chat_completion]_vars

C17_Witness ==
    /\ last.op = "handle_request"
    /\ last.mode = "None"
    /\ last.args[3] = "r1"
    /\ ChatHistory(last.args[2].chat_id) # <<>>
    /\ outbox # <<>> /\ outbox[Len(outbox)].to = last.args[2].sender

\* C18: when process_request returns an empty or no response, handle_request
\* returns True without error in every mode and routes nothing: the transport
\* gets no message and history, participants and message trace are unchanged.
C18_NoResponseRoutesNothing ==
    [][\A p \in Procs :
         /\ (HandlerStep(p) /\ job[p].mode # "" /\ StepResponse(p) = "")
            => /\ pc[p] = "process_request"
                    => (/\ pc'[p] = "idle"
                        /\ last'.op = "handle_request"
                        /\ last'.err = ""
                        /\ last'.ret = PyBool(TRUE)
                        /\ last'.sent = <<>>)
               /\ UNCHANGED <<outbox, llm_chat_completion, participants, message_trace>>
         /\ (pc'[p] # pc[p] /\ pc[p] \in {"idle", "get_collaboration_type"}
               /\ job'[p].op = "handle_request")
            => UNCHANGED <<outbox, llm_chat_completion, participants, message_trace>>]_vars

C18_Witness ==
    /\ last.op = "handle_request"
    /\ last.args[3] = ""
    /\ last.mode = "SEQUENTIAL"
    /\ last.ret = PyBool(TRUE)
    /\ ChatHistory(last.args[2].chat_id) # <<>>

\* ================================================== claims: outbound sends
\* C19: every message sent, by send_request or send_response, called directly
\* or from handle_request in any mode, carries the sending agent's name as its
\* sender; its context is registered, the sender is among the participants and
\* the message is the last entry of the message trace.
C19_SendSideEffects ==
    (last.op \in {"handle_request", "send_request", "send_response"} /\ last.sent # <<>>)
    => LET self == last.args[1]
           message == last.sent[1].message
       IN /\ Len(last.sent) = 1
          /\ message.sender = self
          /\ last.op # "handle_request" => message = [last.args[2] EXCEPT !.sender = self]
          /\ does_context_exist(message.context_name)
          /\ Occurrences(participants, self) >= 1
          /\ \E i \in DOMAIN outbox : outbox[i] = last.sent[1]
          /\ message_trace # <<>> /\ message_trace[Len(message_trace)] = Traced(message)

C19_Witness ==
    /\ last.op = "send_request"
    /\ last.args[2].sender = "U"
    /\ last.sent[1].message.sender = "A"
    /\ message_trace # <<>>

\* ======================================================= claims: registry
\* C20: get_or_create_context(name) returns the registered context and neither
\* creates nor registers anything when name is registered; otherwise it
\* constructs a context that is registered under name.  The registry holds one
\* context per name, each under its own name, and the call leaves everything
\* written through earlier contexts as it was, for the returned one to read.
C20_GetOrCreateContext ==
    [][last'.op = "get_or_create_context"
       => LET name == last'.args[1]
          IN /\ IF HasKey(contexts, name)
                THEN /\ last'.ret = contexts[name]
                     /\ ~last'.created
                     /\ contexts' = contexts
                ELSE /\ last'.created
                     /\ last'.ret.name = name
                     /\ DOMAIN contexts' = DOMAIN contexts \cup {name}
                     /\ contexts'[name] = last'.ret
                     /\ \A n \in DOMAIN contexts : contexts'[n] = contexts[n]
             /\ \A n \in DOMAIN contexts' : contexts'[n].name = n
             /\ UNCHANGED <<ctxVars, toolVars, seqVars, phaseVars>>]_vars

C20_Witness ==
    /\ last.op = "get_or_create_context"
    /\ ~last.created
    /\ DOMAIN contexts = RegistryNames
    /\ participants # <<>>

\* ------------------- specification: processes sharing the lists of one chat
\* Each process makes one call of add_participant,
\* remove_required_agent_for_current_phase or append_required_tool_call on the
\* redis backend, command by command.
ListCalls(p) ==
    {[op |-> "add_participant", agent_name |-> a, err |-> "", retries |-> 0] : a \in SeqAgents}
    \cup {[op |-> "remove_required_agent_for_current_phase", chat |-> chat, agent_name |-> a,
            err |-> "", retries |-> 0] : chat \in Chats, a \in SeqAgents}
    \cup {[op |-> "append_required_tool_call", chat |-> chat, tool_name |-> t,
            err |-> "", retries |-> 0] : chat \in Chats, t \in Tools}

\* append_required_tool_call tests the key with hexists before any watch.
CallList(p) ==
    /\ pc[p] = "idle"
    /\ \E call \in ListCalls(p) :
        /\ job' = [job EXCEPT ![p] = call]
        /\ pc' = [pc EXCEPT ![p] = IF call.op = "append_required_tool_call"
                                   THEN "hexists" ELSE "watch"]
    /\ UNCHANGED <<snap, watching, dirty>>
    /\ StoreUnchanged /\ NetFrame

\* remove_required_agent_for_current_phase: no key; unwatch and return.
RemoveAbsent(p) ==
    /\ pc[p] = "check"
    /\ job[p].op = "remove_required_agent_for_current_phase"
    /\ ~Exists(job[p])
    /\ watching' = [watching EXCEPT ![p] = {}]
    /\ pc' = [pc EXCEPT ![p] = "done"]
    /\ UNCHANGED <<job, snap, dirty>>
    /\ StoreUnchanged /\ NetFrame

\* What hget, pickle.loads and list.remove make of the stored value: TypeError
\* when the key is gone since hexists, ValueError when the list lacks the agent.
ReadRequiredErr(call) ==
    IF ~HasKey(required_agents_for_current_phase, call.chat) THEN "TypeError"
    ELSE IF call.agent_name \notin Range(required_agents_for_current_phase[call.chat])
    THEN "ValueError" ELSE ""

ReadRequired(p) ==
    /\ pc[p] = "read"
    /\ job[p].op = "remove_required_agent_for_current_phase"
    /\ IF ReadRequiredErr(job[p]) # ""
       THEN /\ job' = [job EXCEPT ![p].err = ReadRequiredErr(job[p])]
            /\ pc' = [pc EXCEPT ![p] = "done"]
            /\ UNCHANGED snap
       ELSE /\ snap' = [snap EXCEPT ![p] =
                 PyList(ListRemove(required_agents_for_current_phase[job[p].chat],
                                   job[p].agent_name))]
            /\ pc' = [pc EXCEPT ![p] = "exec"]
            /\ UNCHANGED job
    /\ UNCHANGED <<watching, dirty>>
    /\ StoreUnchanged /\ NetFrame

\* self._redis_db.hexists(...), outside the pipeline.
ToolCallExists(p) ==
    /\ pc[p] = "hexists"
    /\ pc' = [pc EXCEPT ![p] = IF Exists(job[p]) THEN "watch" ELSE "hset"]
    /\ UNCHANGED <<job, snap, watching, dirty>>
    /\ StoreUnchanged /\ NetFrame

\* self._redis_db.hset(key, [tool_name]): an unconditional write; the
\* execute() of the empty pipeline that follows does nothing.
ToolCallFirst(p) ==
    /\ pc[p] = "hset"
    /\ llm_required_tool_call' = DictSet(llm_required_tool_call, job[p].chat, <<job[p].tool_name>>)
    /\ dirty' = [q \in Procs |-> dirty[q] \/ (q # p /\ WrittenKey(job[p]) \in watching[q])]
    /\ pc' = [pc EXCEPT ![p] = "done"]
    /\ UNCHANGED <<job, snap, watching>>
    /\ UNCHANGED <<participants, llm_chat_completion, agents, required_agents_for_current_phase,
                   queries, current_phase>>
    /\ NetFrame

\* pipe.hget and pickle.loads of the stored tool names.
ReadToolCalls(p) ==
    /\ pc[p] = "read"
    /\ job[p].op = "append_required_tool_call"
    /\ snap' = [snap EXCEPT ![p] = PyList(llm_required_tool_call[job[p].chat])]
    /\ pc' = [pc EXCEPT ![p] = "exec"]
    /\ UNCHANGED <<job, watching, dirty>>
    /\ StoreUnchanged /\ NetFrame

\* The chat is in its first phase with both agents still required, or has no
\* phases at all.
PhaseStarted ==
    \/ /\ agent_phase_assignments = [chat \in Chats |-> <<<<"A", "B">>>>]
       /\ current_phase = [chat \in Chats |-> 0]
       /\ required_agents_for_current_phase = [chat \in Chats |-> <<"A", "B">>]
    \/ /\ agent_phase_assignments = EmptyDict
       /\ current_phase = EmptyDict
       /\ required_agents_for_current_phase = EmptyDict

InitLists ==
    /\ use_redis = TRUE
    /\ participants = <<>>
    /\ message_trace = <<>>
    /\ llm_chat_completion = EmptyDict
    /\ llm_required_tool_call = EmptyDict
    /\ llm_available_tools_in_chat = EmptyDict
    /\ queries = EmptyDict
    /\ agents_sequence = EmptyDict
    /\ route_response_to = EmptyDict
    /\ PhaseStarted
    /\ collaboration_type = EmptyDict
    /\ agents = EmptyDict
    /\ tools = EmptyDict
    /\ contexts = EmptyDict
    /\ outbox = <<>>
    /\ handled = 0
    /\ transports = <<>>
    /\ replay = NoReplay
    /\ last = NoCall
    /\ InitProcs

Step(p) ==
    \/ CallList(p)
    \/ Watch(p)
    \/ CheckAbsent(p)
    \/ CheckPresent(p)
    \/ RemoveAbsent(p)
    \/ ReadParticipants(p)
    \/ ReadRequired(p)
    \/ ToolCallExists(p)
    \/ ToolCallFirst(p)
    \/ ReadToolCalls(p)
    \/ WatchError(p)
    \/ Commit(p)

NextRace == \E p \in Procs : Step(p)

SpecRace == InitLists /\ [][NextRace]_vars

\* Every process that can take a step eventually takes one: each is an
\* operating-system process running its call to the end.
SpecRaceFair == SpecRace /\ \A p \in Procs : WF_vars(Step(p))

\* ------------------------------------------ specification: two chats
\* Every chat-keyed operation of the context is called for the chats of Chats
\* while a second chat, OtherChat, has entries of its own or none.
MaxIsoLen == 1
OtherChat == "c2"
IsoChats == Chats \cup {OtherChat}
IsoPhases == <<<<"A">>, <<"B">>>>

IsoFrame == UNCHANGED <<use_redis, replay, participants, message_trace, regVars, agentVars, procVars>>

\* The entries of the second chat: stored by earlier calls for it, or absent.
OtherEntry(stored, value) == IF stored THEN DictSet(EmptyDict, OtherChat, value) ELSE EmptyDict

InitIso ==
    /\ use_redis \in BOOLEAN
    /\ participants = <<>>
    /\ message_trace = <<>>
    /\ \E stored \in BOOLEAN :
        /\ llm_chat_completion = OtherEntry(stored, <<[role |-> "user", content |-> "q1"]>>)
        /\ llm_required_tool_call = OtherEntry(stored, <<"t2">>)
        /\ llm_available_tools_in_chat = OtherEntry(stored, <<"t2">>)
        /\ queries = OtherEntry(stored, AddQueryFirst("q2"))
        /\ agents_sequence = OtherEntry(stored, <<"B">>)
        /\ route_response_to = OtherEntry(stored, "B")
        /\ collaboration_type = OtherEntry(stored, "SEQUENTIAL")
        /\ agent_phase_assignments = OtherEntry(stored, <<<<"B">>>>)
        /\ current_phase = OtherEntry(stored, 0)
        /\ required_agents_for_current_phase = OtherEntry(stored, <<"B">>)
    /\ agents = EmptyDict
    /\ tools = EmptyDict
    /\ contexts = EmptyDict
    /\ outbox = <<>>
    /\ handled = 0
    /\ transports = <<>>
    /\ replay = NoReplay
    /\ last = NoCall
    /\ InitProcs

IsoAppendChatCompletion ==
    \E chat \in Chats :
        /\ Len(ChatHistory(chat)) < MaxIsoLen
        /\ append_chat_completion(chat, AssistantMessage("r1"))
        /\ last' = Ok("append_chat_completion", <<chat, AssistantMessage("r1")>>, PyNone)
        /\ UNCHANGED <<llm_required_tool_call, llm_available_tools_in_chat, queries, agents_sequence, route_response_to, collaboration_type>>
        /\ UNCHANGED phaseVars
        /\ IsoFrame

IsoAppendRequiredToolCall ==
    \E chat \in Chats :
        /\ Len(get_required_tool_calls(chat)) < MaxIsoLen
        /\ append_required_tool_call(chat, "t1")
        /\ last' = Ok("append_required_tool_call", <<chat, "t1">>, PyNone)
        /\ UNCHANGED <<llm_chat_completion, llm_available_tools_in_chat, queries, agents_sequence, route_response_to, collaboration_type>>
        /\ UNCHANGED phaseVars
        /\ IsoFrame

IsoRemoveRequiredToolCall ==
    \E chat \in Chats :
        /\ remove_required_tool_call(chat, "t1")
        /\ UNCHANGED <<llm_chat_completion, llm_available_tools_in_chat, queries, agents_sequence, route_response_to, collaboration_type>>
        /\ UNCHANGED phaseVars
        /\ IsoFrame

IsoAppendAvailableToolInChat ==
    \E chat \in Chats :
        /\ Len(get_available_tools_in_chat(chat)) < MaxIsoLen
        /\ append_available_tool_in_chat(chat, "t1")
        /\ last' = Ok("append_available_tool_in_chat", <<chat, "t1">>, PyNone)
        /\ UNCHANGED <<llm_chat_completion, llm_required_tool_call, queries, agents_sequence, route_response_to, collaboration_type>>
        /\ UNCHANGED phaseVars
        /\ IsoFrame

IsoAddQuery ==
    \E chat \in Chats :
        /\ Len(get_queries(chat)) < MaxIsoLen
        /\ add_query(chat, "q1")
        /\ last' = Ok("add_query", <<chat, "q1">>, PyNone)
        /\ UNCHANGED <<llm_chat_completion, llm_required_tool_call, llm_available_tools_in_chat, agents_sequence, route_response_to, collaboration_type>>
        /\ UNCHANGED phaseVars
        /\ IsoFrame

IsoSetAgentsSequence ==
    \E chat \in Chats :
        /\ set_agents_sequence(chat, <<"A">>)
        /\ last' = Ok("set_agents_sequence", <<chat>>, PyNone)
        /\ UNCHANGED <<llm_chat_completion, llm_required_tool_call, llm_available_tools_in_chat, queries, route_response_to, collaboration_type>>
        /\ UNCHANGED phaseVars
        /\ IsoFrame

IsoSetRouteResponseTo ==
    \E chat \in Chats :
        /\ set_route_response_to(chat, "A")
        /\ last' = Ok("set_route_response_to", <<chat>>, PyNone)
        /\ UNCHANGED <<llm_chat_completion, llm_required_tool_call, llm_available_tools_in_chat, queries, agents_sequence, collaboration_type>>
        /\ UNCHANGED phaseVars
        /\ IsoFrame

IsoSetCollaborationType ==
    \E chat \in Chats :
        /\ set_collaboration_type(chat, "PHASED")
        /\ last' = Ok("set_collaboration_type", <<chat>>, PyNone)
        /\ UNCHANGED <<llm_chat_completion, llm_required_tool_call, llm_available_tools_in_chat, queries, agents_sequence, route_response_to>>
        /\ UNCHANGED phaseVars
        /\ IsoFrame

IsoSetAgentPhaseAssignments ==
    \E chat \in Chats :
        /\ set_agent_phase_assignments(chat, IsoPhases)
        /\ UNCHANGED <<llm_chat_completion, llm_required_tool_call, llm_available_tools_in_chat, queries, agents_sequence, route_response_to, collaboration_type>>
        /\ IsoFrame

IsoSetCurrentPhase ==
    \E chat \in Chats, phase \in 0..1 :
        /\ set_current_phase(chat, phase)
        /\ UNCHANGED <<llm_chat_completion, llm_required_tool_call, llm_available_tools_in_chat, queries, agents_sequence, route_response_to, collaboration_type>>
        /\ IsoFrame

IsoGetAgentsForNextPhase ==
    \E chat \in Chats :
        /\ get_agents_for_next_phase(chat)
        /\ UNCHANGED <<llm_chat_completion, llm_required_tool_call, llm_available_tools_in_chat, queries, agents_sequence, route_response_to, collaboration_type>>
        /\ IsoFrame

IsoRemoveRequiredAgent ==
    \E chat \in Chats :
        /\ remove_required_agent_for_current_phase(chat, "A")
        /\ UNCHANGED <<llm_chat_completion, llm_required_tool_call, llm_available_tools_in_chat, queries, agents_sequence, route_response_to, collaboration_type>>
        /\ IsoFrame

NextIso ==
    \/ IsoAppendChatCompletion
    \/ IsoAppendRequiredToolCall
    \/ IsoRemoveRequiredToolCall
    \/ IsoAppendAvailableToolInChat
    \/ IsoAddQuery
    \/ IsoSetAgentsSequence
    \/ IsoSetRouteResponseTo
    \/ IsoSetCollaborationType
    \/ IsoSetAgentPhaseAssignments
    \/ IsoSetCurrentPhase
    \/ IsoGetAgentsForNextPhase
    \/ IsoRemoveRequiredAgent

SpecIso == InitIso /\ [][NextIso]_vars

\* ------------------------------------- specification: agents starting
\* Agent objects are numbered in the order they are constructed; object i owns
\* transports[i].  A started STOMP transport is subscribed to the request queue
\* of its agent's name and hands every message it receives to the request
\* callback the agent has set.
MaxAgentObjects == 2

\* The descriptions agents are constructed with.
StartDescriptions == {"d1"}

Transport(agent_name, description) ==
    [agent_name |-> agent_name, description |-> description, request_receiver |-> FALSE,
     conn |-> "None", conn2 |-> "None", subscribed |-> FALSE, subscribed2 |-> FALSE,
     replaced |-> <<>>, leaked |-> FALSE, received |-> 0,
     called |-> 0]

set_call_backs(transport) == [transport EXCEPT !.request_receiver = TRUE]

StartFrame == UNCHANGED <<use_redis, replay, ctxVars, toolVars, seqVars, phaseVars, contexts, tools,
                          outbox, handled, agents, snap, watching, dirty>>

\* The agent objects whose constructor is still inside start_agent: nobody
\* else holds a reference to them.
Starting == {job[p].object : p \in {q \in Procs : job[q].op = "start_agent" /\ job[q].new}}

\* The agent objects whose listener thread is inside handle_request.
Handling == {job[p].object : p \in {q \in Procs : job[q].op = "handle_request"}}

\* The names an agent is constructed with: the names are interchangeable, and
\* the first agent takes the first of them.
StartNames == IF transports = <<>> THEN {"A"} ELSE SeqAgents

\* WiseAgent.__init__ ends with start_agent(), run on the constructing thread
\* p: set_call_backs, and transport.start() is next.
StartAgent ==
    \E p \in Procs, name \in StartNames, description \in StartDescriptions :
        /\ FirstIdle(p)
        /\ Len(transports) < MaxAgentObjects
        /\ transports' = Append(transports, set_call_backs(Transport(name, description)))
        /\ Goes(p, "start", [AgentCall("start_agent", name, description, Len(transports) + 1)
                               EXCEPT !.new = TRUE])
        /\ StartFrame

\* start_agent() of an agent object that exists, started or stopped; called
\* counts the calls of start_agent and stop_agent the object has had since it
\* was constructed.
StartAgentAgain ==
    \E p \in Procs, i \in DOMAIN transports \ Starting :
        /\ FirstIdle(p)
        /\ transports[i].called < MaxAgentCalls
        /\ transports' = [transports EXCEPT ![i] = [set_call_backs(@) EXCEPT !.called = @ + 1]]
        /\ Goes(p, "start", AgentCall("start_agent", transports[i].agent_name,
                                 transports[i].description, i))
        /\ StartFrame

\* stop_agent() of an agent object that exists, whatever its state:
\* transport.stop() is next, and unregister_agent when that has returned.
StopAgent ==
    \E p \in Procs, i \in DOMAIN transports \ Starting :
        /\ FirstIdle(p)
        /\ transports[i].called < MaxAgentCalls
        /\ transports' = [transports EXCEPT ![i].called = @ + 1]
        /\ Goes(p, "stop", AgentCall("stop_agent", transports[i].agent_name,
                                     transports[i].description, i))
        /\ StartFrame

OnMessageFrame == UNCHANGED <<use_redis, replay, ctxVars, toolVars, seqVars, phaseVars, agents,
                              tools, outbox, handled, snap, watching, dirty>>

\* A message on /queue/request/<name> reaches one of the subscribers of the
\* queue; the listener thread of its connection calls
\* transport.request_receiver, the agent's handle_request, which goes on with
\* the agent's transport in whatever state that is by then.
OnMessage ==
    \E i \in DOMAIN transports, p \in Procs, request \in Requests :
        /\ Receives(transports[i])
        /\ transports[i].request_receiver
        /\ transports[i].received < MaxHandled
        /\ i \notin Handling
        /\ transports' = [transports EXCEPT ![i].received = @ + 1]
        /\ handle_request(p, transports[i].agent_name, request, i)
        /\ OnMessageFrame

NextStart ==
    \/ StartAgent
    \/ StartAgentAgain
    \/ StopAgent
    \/ OnMessage
    \/ HandleResponse
    \/ CallStep

SpecStart == Init /\ [][NextStart]_vars

\* ------------------------- specification: the same calls on both backends
\* One process makes up to MaxCalls phase calls on a fresh local context; then
\* the same calls are made, in the same order, on a fresh redis context.
MaxCalls == 3

BothPhases == {<<<<"A">>>>, <<<<"A">>, <<"B">>>>}

BothCalls ==
    {[op |-> "set_agent_phase_assignments", chat |-> chat, arg |-> phases] :
        chat \in Chats, phases \in BothPhases}
    \cup {[op |-> "set_current_phase", chat |-> chat, arg |-> phase] : chat \in Chats, phase \in 0..1}
    \cup {[op |-> "get_agents_for_next_phase", chat |-> chat, arg |-> PyNone] : chat \in Chats}
    \cup {[op |-> "remove_required_agent_for_current_phase", chat |-> chat, arg |-> a] :
            chat \in Chats, a \in {"A"}}

DoCall(call) ==
    IF call.op = "set_agent_phase_assignments" THEN set_agent_phase_assignments(call.chat, call.arg)
    ELSE IF call.op = "set_current_phase" THEN set_current_phase(call.chat, call.arg)
    ELSE IF call.op = "get_agents_for_next_phase" THEN get_agents_for_next_phase(call.chat)
    ELSE remove_required_agent_for_current_phase(call.chat, call.arg)

\* What the caller sees after a call: whether it raised, what it returned, and
\* what the phase getters return for the chat.
Observed(chat) ==
    [failed |-> last.err # "", ret |-> last.ret,
     get_agent_phase_assignments |-> get_agent_phase_assignments(chat),
     get_current_phase |-> get_current_phase(chat),
     get_required_agents_for_current_phase |-> get_required_agents_for_current_phase(chat)]

BothFrame == UNCHANGED <<ctxVars, toolVars, seqVars, regVars, agentVars, procVars>>

CallLocal ==
    \E call \in BothCalls :
        /\ ~use_redis
        /\ Len(replay.calls) < MaxCalls
        /\ DoCall(call)
        /\ replay' = [replay EXCEPT !.calls = Append(@, call),
                                     !.seen = Append(@, Observed(call.chat)')]
        /\ UNCHANGED use_redis
        /\ BothFrame

\* The second run: an empty redis store and a fresh context with use_redis
\* true, which its constructor registers there.
SwitchBackend ==
    /\ ~use_redis
    /\ replay.calls # <<>>
    /\ use_redis' = TRUE
    /\ agent_phase_assignments' = EmptyDict
    /\ current_phase' = EmptyDict
    /\ required_agents_for_current_phase' = EmptyDict
    /\ contexts' = register_context(EmptyDict, WiseAgentContext("ctx")')
    /\ last' = NoCall
    /\ replay' = [replay EXCEPT !.pos = 1]
    /\ UNCHANGED <<ctxVars, toolVars, seqVars, agents, tools, agentVars, procVars>>

CallRedis ==
    /\ use_redis
    /\ replay.pos \in DOMAIN replay.calls
    /\ DoCall(replay.calls[replay.pos])
    /\ replay' = [replay EXCEPT !.pos = @ + 1]
    /\ UNCHANGED use_redis
    /\ BothFrame

\* The first run starts with its context constructed, and so registered.
InitBoth ==
    /\ use_redis = FALSE
    /\ participants = <<>>
    /\ message_trace = <<>>
    /\ llm_chat_completion = EmptyDict
    /\ llm_required_tool_call = EmptyDict
    /\ llm_available_tools_in_chat = EmptyDict
    /\ queries = EmptyDict
    /\ agents_sequence = EmptyDict
    /\ route_response_to = EmptyDict
    /\ agent_phase_assignments = EmptyDict
    /\ current_phase = EmptyDict
    /\ required_agents_for_current_phase = EmptyDict
    /\ collaboration_type = EmptyDict
    /\ agents = EmptyDict
    /\ tools = EmptyDict
    /\ contexts = register_context(EmptyDict, WiseAgentContext("ctx"))
    /\ outbox = <<>>
    /\ handled = 0
    /\ transports = <<>>
    /\ replay = NoReplay
    /\ last = NoCall
    /\ InitProcs

NextBoth ==
    \/ CallLocal
    \/ SwitchBackend
    \/ CallRedis

SpecBoth == InitBoth /\ [][NextBoth]_vars

\* ================================================= claims: tool directory
\* C21: register_tool never fails; a tool whose name is taken replaces the one
\* stored, so get_tool(name) returns the tool registered last under the name,
\* and the tools stored under other names stay as they were.
C21_RegisterToolLastWins ==
    [][last'.op = "register_tool"
       => /\ last'.err = ""
          /\ \A n \in Tools :
                get_tool(n)' = IF n = last'.args[1].name THEN last'.args[1] ELSE get_tool(n)]_vars

C21_Witness ==
    /\ last.op = "register_tool"
    /\ last.replaced
    /\ DOMAIN tools = Tools
    /\ get_tool(last.args[1].name) = last.args[1]

\* ============================================ claims: removing what is absent
\* C22: remove_required_tool_call(chat, t) for a tool that is not stored for
\* the chat (no key, or a list without t) returns without error and leaves
\* the stored required tool calls unchanged.
C22_RemoveAbsentIsNoOp ==
    [][(/\ last'.op = "remove_required_tool_call"
        /\ last'.args[2] \notin Range(get_required_tool_calls(last'.args[1])))
       => /\ last'.err = ""
          /\ UNCHANGED llm_required_tool_call]_vars

\* ============================================ claims: conflicts and retries
\* C23: a call whose execute() meets a conflict on the watched key is never
\* handed the conflict; it starts over from the watch and, the other processes
\* having finished their writes, eventually commits and returns normally.
C23_ConflictRetriedUntilCommit ==
    \A p \in Procs :
        /\ [](job[p].op # "none" => job[p].err # "WatchError")
        /\ (pc[p] = "exec" /\ dirty[p]) ~> (pc[p] = "done" /\ job[p].err = "")

\* What does hold: every call that met a conflict ends, and the only calls that
\* end with an exception are those of remove_required_agent_for_current_phase.
ConflictedCallEnds == \A p \in Procs : (pc[p] = "exec" /\ dirty[p]) ~> (pc[p] = "done")

OnlyRemoveRaises ==
    \A p \in Procs : job[p].op # "none" /\ job[p].err # ""
                        => job[p].op = "remove_required_agent_for_current_phase"

\* C24: two processes call append_required_tool_call for the same chat; when
\* both calls have returned, both tool names are among the chat's required
\* tool calls.
C24_BothToolCallsStored ==
    (\A p \in Procs : pc[p] = "done" /\ job[p].op = "append_required_tool_call"
                        /\ job[p].chat = "c1")
    => \A p \in Procs : job[p].tool_name \in Range(get_required_tool_calls("c1"))

\* ===================================================== claims: two chats
\* What is stored for a chat in each of the chat-keyed maps.
EntryOf(map, chat) == IF HasKey(map, chat) THEN <<map[chat]>> ELSE <<>>

ChatEntries(chat) ==
    <<EntryOf(llm_chat_completion, chat), EntryOf(llm_required_tool_call, chat),
      EntryOf(llm_available_tools_in_chat, chat), EntryOf(agents_sequence, chat),
      EntryOf(route_response_to, chat), EntryOf(agent_phase_assignments, chat),
      EntryOf(current_phase, chat), EntryOf(required_agents_for_current_phase, chat),
      EntryOf(queries, chat), EntryOf(collaboration_type, chat)>>

\* C25: an operation called for one chat leaves the entries of every other
\* chat, in every chat-keyed map, as they were.
C25_OtherChatsUnchanged ==
    [][\A other \in IsoChats :
         other # last'.args[1] => ChatEntries(other)' = ChatEntries(other)]_vars

C25_Witness ==
    /\ last.op = "remove_required_agent_for_current_phase"
    /\ last.args[1] = "c1"
    /\ \A i \in 1..10 : ChatEntries("c1")[i] # <<>> /\ ChatEntries(OtherChat)[i] # <<>>
                          /\ (i # 7 => ChatEntries("c1")[i] # ChatEntries(OtherChat)[i])

\* ============================================== claims: required agents
\* C26: the required agents of a chat are a copy of the phase's list:
\* remove_required_agent_for_current_phase never changes the phase
\* assignments, and a set_current_phase that succeeds stores the phase's full
\* list again, whatever was removed before.
C26_RequiredIsCopy ==
    [][\A chat \in Chats :
         /\ (last'.op = "remove_required_agent_for_current_phase" /\ last'.args[1] = chat)
            => get_agent_phase_assignments(chat)' = get_agent_phase_assignments(chat)
         /\ (last'.op = "set_current_phase" /\ last'.args[1] = chat /\ last'.err = "")
            => /\ get_agent_phase_assignments(chat)' = get_agent_phase_assignments(chat)
               /\ get_required_agents_for_current_phase(chat)' =
                      Item(get_agent_phase_assignments(chat), last'.args[2])]_vars

C26_Witness ==
    /\ last.op = "remove_required_agent_for_current_phase"
    /\ last.err = ""
    /\ get_required_agents_for_current_phase("c1") = <<>>
    /\ get_current_phase("c1") # PyNone
    /\ InRange(get_agent_phase_assignments("c1"), current_phase["c1"])
    /\ Len(Item(get_agent_phase_assignments("c1"), current_phase["c1"])) = 2

\* The step sets the phase of the chat: it stores a phase number for it.
PhaseSetFor(chat) ==
    \/ EntryOf(current_phase, chat)' # EntryOf(current_phase, chat)
    \/ last'.op = "set_current_phase" /\ last'.args[1] = chat /\ last'.err = ""

\* A step that sets the phase leaves required agents that belong to the phase
\* now current; any other step adds no agent to the required ones.
RequiredStaysWithinPhase(chat) ==
    IF PhaseSetFor(chat)
    THEN Range(get_required_agents_for_current_phase(chat)')
              \subseteq IF InRange(get_agent_phase_assignments(chat), current_phase'[chat])
                        THEN Range(Item(get_agent_phase_assignments(chat), current_phase'[chat]))
                        ELSE {}
    ELSE Range(get_required_agents_for_current_phase(chat)')
              \subseteq Range(get_required_agents_for_current_phase(chat))

\* C27: for every chat with a current phase the required agents are among the
\* agents the current phase had when it was set; no operation adds an agent
\* from outside that phase.
C27_RequiredWithinPhase == [][\A chat \in Chats : RequiredStaysWithinPhase(chat)]_vars

RequiredWithinPhaseOnRedis ==
    [][use_redis => \A chat \in Chats : RequiredStaysWithinPhase(chat)]_vars

\* ================================================ claims: agents starting
\* C28: an agent started under a name that is registered already raises the
\* naming conflict and does not start: when the conflict has been raised its
\* transport is not subscribed, so no message can reach its request callback.
C28_ConflictingAgentNotStarted ==
    (last.op = "start_agent" /\ last.new /\ last.err = "NameError")
    => ~transports[last.object].subscribed

\* The transport left subscribed does receive: after its start_agent has
\* ended a message is handed to the request callback of an agent whose name
\* another running agent registered.
ConflictingAgentReceives ==
    /\ last.op = "process_request"
    /\ last.object \notin Starting
    /\ \E j \in 1..(last.object - 1) :
          /\ transports[j].agent_name = transports[last.object].agent_name
          /\ transports[j].subscribed
    /\ use_redis

\* ================================================ claims: chat history
IsPrefix(a, b) == Len(a) <= Len(b) /\ SubSeq(b, 1, Len(a)) = a

\* C29: the chat history of a chat only grows at its end: in every step of the
\* context and agent operations what was recorded before the step is a prefix
\* of what is recorded after it.
C29_HistoryAppendOnly ==
    [][\A chat \in Chats : IsPrefix(ChatHistory(chat), ChatHistory(chat)')]_vars

C29_Witness ==
    /\ last.op = "handle_request"
    /\ Len(ChatHistory("c1")) = 2
    /\ ChatHistory("c1")[1] = [role |-> "user", content |-> "q1"]
    /\ ChatHistory("c1")[2] = AssistantMessage("r1")

\* ============================================== claims: the two backends
\* C30: a process that makes the same calls on the local and on the redis
\* backend observes the same after every call: the call fails on both or on
\* neither, returns the same, and every getter returns the same.
C30_BackendsEquivalent ==
    [][\A chat \in Chats :
         (/\ use_redis
          /\ replay.pos \in DOMAIN replay.calls
          /\ replay'.pos = replay.pos + 1
          /\ replay.calls[replay.pos].chat = chat)
         => Observed(chat)' = replay.seen[replay.pos]]_vars

\* ============================================== claims: agent lifecycle
\* stop_agent of an agent of the name returns or raises, its transport.stop()
\* having returned.
Stops(name) ==
    /\ last'.op = "stop_agent"
    /\ last'.args[1] = name
    /\ \E p \in Procs : pc[p] = "unregister_agent" /\ pc'[p] = "idle"

\* C31: stopping a started agent leaves its name absent from the directory, so
\* that the name can be registered again; the stop does not fail, leaves the
\* entries of other names as they were, and no step other than a stop removes
\* an entry.
C31_StopFreesName ==
    [][\A name \in SeqAgents :
         /\ Stops(name)
            => /\ last'.err = ""
               /\ ~HasKey(agents', name)
               /\ RegisterAgentErr(name)' = ""
               /\ \A other \in SeqAgents \ {name} :
                    HasKey(agents', other) = HasKey(agents, other)
                    /\ (HasKey(agents, other) => agents'[other] = agents[other])
         /\ (HasKey(agents, name) /\ ~HasKey(agents', name))
            => (last'.op = "stop_agent" /\ last'.args[1] = name)]_vars

StopFreesNameOnRedis ==
    [][use_redis =>
        \A name \in SeqAgents :
         /\ Stops(name)
            => /\ last'.err = ""
               /\ ~HasKey(agents', name)
               /\ RegisterAgentErr(name)' = ""
               /\ \A other \in SeqAgents \ {name} :
                    HasKey(agents', other) = HasKey(agents, other)
                    /\ (HasKey(agents, other) => agents'[other] = agents[other])
         /\ (HasKey(agents, name) /\ ~HasKey(agents', name))
            => (last'.op = "stop_agent" /\ last'.args[1] = name)]_vars

\* ======================================== claims: concurrent removals
Removers == {p \in Procs : job[p].op = "remove_required_agent_for_current_phase"}

RemovedNames == {job[p].agent_name : p \in Removers}

\* C32: agents removing their own, distinct names from the required agents of
\* one chat at the same time: when all calls have returned none has raised,
\* every one of the names is gone, and the key is deleted when they were all
\* the required agents.
C32_DistinctRemovalsAllApplied ==
    (/\ \A p \in Procs : pc[p] = "done"
     /\ \A p, q \in Removers : p # q => job[p].agent_name # job[q].agent_name)
    => /\ \A p \in Removers : job[p].err = ""
       /\ RemovedNames \cap Range(get_required_agents_for_current_phase("c1")) = {}
       /\ RemovedNames = {"A", "B"} => ~HasKey(required_agents_for_current_phase, "c1")

C32_Witness ==
    /\ \A p \in Procs : pc[p] = "done"
    /\ RemovedNames = {"A", "B"}
    /\ \E p \in Removers : job[p].retries > 0
    /\ HasKey(current_phase, "c1")
    /\ ~HasKey(required_agents_for_current_phase, "c1")

\* ---------------------------------------------------------------------------
\* Coordinators: add_query and get_agents_for_next_phase called by concurrent
\* processes on redis, one redis command per step.
\* ---------------------------------------------------------------------------
CoordCalls(p) ==
    {[op |-> "add_query", chat |-> chat, query |-> q, err |-> "", retries |-> 0,
      ret |-> PyNone, phase |-> -1] : chat \in Chats, q \in Queries}
    \cup {[op |-> "get_agents_for_next_phase", chat |-> chat, err |-> "", retries |-> 0,
           ret |-> PyNone, next_phase |-> -1, phase |-> -1] : chat \in Chats}

CallCoord(p) ==
    /\ pc[p] = "idle"
    /\ \E call \in CoordCalls(p) :
        /\ job' = [job EXCEPT ![p] = call]
        /\ pc' = [pc EXCEPT ![p] = IF call.op = "add_query" THEN "watch" ELSE "getphase"]
    /\ UNCHANGED <<snap, watching, dirty>>
    /\ StoreUnchanged /\ NetFrame

\* add_query: pipe.hexists(...) == False.
QueryAbsent(p) ==
    /\ pc[p] = "check"
    /\ job[p].op = "add_query"
    /\ ~Exists(job[p])
    /\ pc' = [pc EXCEPT ![p] = "qfirst"]
    /\ UNCHANGED <<job, snap, watching, dirty>>
    /\ StoreUnchanged /\ NetFrame

\* Who sees a write made on a watching connection outside multi(): redis flags
\* every connection watching the key, the writer's own included.
DirtiesWatchers(p, q, key) == dirty[q] \/ key \in watching[q]

\* add_query: pipe.hset("queries", chat, [query]) before any multi() is sent
\* at once and replaces whatever is stored.
QueryFirst(p) ==
    /\ pc[p] = "qfirst"
    /\ queries' = DictSet(queries, job[p].chat, <<job[p].query>>)
    /\ dirty' = [q \in Procs |-> DirtiesWatchers(p, q, "queries")]
    /\ pc' = [pc EXCEPT ![p] = "exec"]
    /\ UNCHANGED <<job, snap, watching>>
    /\ UNCHANGED <<participants, llm_chat_completion, agents, llm_required_tool_call,
                   required_agents_for_current_phase, current_phase>>
    /\ NetFrame

\* add_query: pipe.hget and pickle.loads of the stored queries.
ReadQueries(p) ==
    /\ pc[p] = "read"
    /\ job[p].op = "add_query"
    /\ snap' = [snap EXCEPT ![p] = PyList(queries[job[p].chat])]
    /\ pc' = [pc EXCEPT ![p] = "exec"]
    /\ UNCHANGED <<job, watching, dirty>>
    /\ StoreUnchanged /\ NetFrame

\* get_agents_for_next_phase: current_phase = get_current_phase(chat), one HGET
\* that watches nothing, and next_phase = current_phase + 1.
ReadPhase(p) ==
    /\ pc[p] = "getphase"
    /\ IF get_current_phase(job[p].chat) = PyNone
       THEN /\ job' = [job EXCEPT ![p].err = "TypeError"]
            /\ pc' = [pc EXCEPT ![p] = "done"]
       ELSE /\ job' = [job EXCEPT ![p].next_phase = NextPhase(job[p].chat)]
            /\ pc' = [pc EXCEPT ![p] = "lenphase"]
    /\ UNCHANGED <<snap, watching, dirty>>
    /\ StoreUnchanged /\ NetFrame

\* get_agents_for_next_phase: next_phase < len(get_agent_phase_assignments(chat)),
\* a second HGET; None is returned when the phases are used up.
CheckNextPhase(p) ==
    /\ pc[p] = "lenphase"
    /\ pc' = [pc EXCEPT ![p] =
                IF job[p].next_phase < Len(get_agent_phase_assignments(job[p].chat))
                THEN "buildphase" ELSE "done"]
    /\ UNCHANGED <<job, snap, watching, dirty>>
    /\ StoreUnchanged /\ NetFrame

\* set_current_phase on redis, while the pipeline is built: the HGET of
\* get_agent_phase_assignments(chat) and the lookup [phase], which raises for
\* a phase that is no index and then nothing is written.
BuildPhase(p) ==
    /\ pc[p] = "buildphase"
    /\ IF SetPhaseErr(job[p].chat, job[p].next_phase) # ""
       THEN /\ job' = [job EXCEPT ![p].err = SetPhaseErr(job[p].chat, job[p].next_phase)]
            /\ pc' = [pc EXCEPT ![p] = "done"]
            /\ UNCHANGED snap
       ELSE /\ snap' = [snap EXCEPT ![p] =
                         PyList(Item(get_agent_phase_assignments(job[p].chat),
                                     job[p].next_phase))]
            /\ pc' = [pc EXCEPT ![p] = "setphase"]
            /\ UNCHANGED job
    /\ UNCHANGED <<watching, dirty>>
    /\ StoreUnchanged /\ NetFrame

\* set_current_phase on redis: execute(), the two hset in one MULTI/EXEC with
\* the values the pipeline was built with.  set_current_phase itself returns
\* here; get_agents_for_next_phase goes on to its return statement.
WritePhase(p) ==
    /\ pc[p] = "setphase"
    /\ current_phase' = DictSet(current_phase, job[p].chat, job[p].next_phase)
    /\ required_agents_for_current_phase' =
         DictSet(required_agents_for_current_phase, job[p].chat, snap[p].v)
    /\ pc' = [pc EXCEPT ![p] =
                IF job[p].op = "set_current_phase" THEN "done" ELSE "retphase"]
    /\ UNCHANGED <<job, snap, watching, dirty>>
    /\ UNCHANGED <<participants, llm_chat_completion, agents, llm_required_tool_call, queries>>
    /\ NetFrame

\* get_agents_for_next_phase: return get_agent_phase_assignments(chat)[next_phase],
\* a third HGET after the write.
ReturnPhase(p) ==
    /\ pc[p] = "retphase"
    /\ job' = [job EXCEPT
                 ![p].ret = PyList(Item(get_agent_phase_assignments(job[p].chat),
                                        job[p].next_phase)),
                 ![p].phase = job[p].next_phase]
    /\ pc' = [pc EXCEPT ![p] = "done"]
    /\ UNCHANGED <<snap, watching, dirty>>
    /\ StoreUnchanged /\ NetFrame

\* The phases of every chat in this specification, the first one current; or
\* no phase state at all.
CoordPhases == <<<<"A">>, <<"B">>, <<"A", "B">>>>

CoordStarted ==
    \/ /\ agent_phase_assignments = [chat \in Chats |-> CoordPhases]
       /\ current_phase = [chat \in Chats |-> 0]
       /\ required_agents_for_current_phase = [chat \in Chats |-> Item(CoordPhases, 0)]
    \/ /\ agent_phase_assignments = EmptyDict
       /\ current_phase = EmptyDict
       /\ required_agents_for_current_phase = EmptyDict

InitCoord ==
    /\ use_redis = TRUE
    /\ participants = <<>>
    /\ message_trace = <<>>
    /\ llm_chat_completion = EmptyDict
    /\ llm_required_tool_call = EmptyDict
    /\ llm_available_tools_in_chat = EmptyDict
    /\ queries = EmptyDict
    /\ agents_sequence = EmptyDict
    /\ route_response_to = EmptyDict
    /\ CoordStarted
    /\ collaboration_type = EmptyDict
    /\ agents = EmptyDict
    /\ tools = EmptyDict
    /\ contexts = EmptyDict
    /\ outbox = <<>>
    /\ handled = 0
    /\ transports = <<>>
    /\ replay = NoReplay
    /\ last = NoCall
    /\ InitProcs

CoordStep(p) ==
    \/ CallCoord(p)
    \/ Watch(p)
    \/ QueryAbsent(p)
    \/ QueryFirst(p)
    \/ CheckPresent(p)
    \/ ReadQueries(p)
    \/ WatchError(p)
    \/ Commit(p)
    \/ ReadPhase(p)
    \/ CheckNextPhase(p)
    \/ BuildPhase(p)
    \/ WritePhase(p)
    \/ ReturnPhase(p)

NextCoord == \E p \in Procs : CoordStep(p)

SpecCoord == InitCoord /\ [][NextCoord]_vars

\* ---------------------------------------------------------------------------
\* Phase callers: processes that each call set_current_phase and
\* get_agents_for_next_phase on redis, one call after the other, one redis
\* command per step.
\* ---------------------------------------------------------------------------
\* The phase set_current_phase is called with: an index of the chat's phases,
\* or the first number that is none.
PhaseNumbers == 0..Len(CoordPhases)

\* next_phase is the local variable of get_agents_for_next_phase, and the phase
\* argument of a set_current_phase that is called on its own.
PhaseCalls(p) ==
    {[op |-> "get_agents_for_next_phase", chat |-> chat, err |-> "", retries |-> 0,
      ret |-> PyNone, next_phase |-> -1, phase |-> -1, calls |-> 1] : chat \in Chats}
    \cup {[op |-> "set_current_phase", chat |-> chat, err |-> "", retries |-> 0,
           ret |-> PyNone, next_phase |-> phase, phase |-> -1, calls |-> 1] :
             chat \in Chats, phase \in PhaseNumbers}

CallsMade(p) == IF pc[p] = "idle" THEN 0 ELSE job[p].calls

CallPhase(p) ==
    /\ pc[p] \in {"idle", "done"}
    /\ CallsMade(p) < MaxPhaseCalls
    /\ \E call \in PhaseCalls(p) :
        /\ job' = [job EXCEPT ![p] = [call EXCEPT !.calls = CallsMade(p) + 1]]
        /\ pc' = [pc EXCEPT ![p] =
                    IF call.op = "set_current_phase" THEN "buildphase" ELSE "getphase"]
    /\ UNCHANGED <<snap, watching, dirty>>
    /\ StoreUnchanged /\ NetFrame

PhaseStep(p) ==
    \/ CallPhase(p)
    \/ ReadPhase(p)
    \/ CheckNextPhase(p)
    \/ BuildPhase(p)
    \/ WritePhase(p)
    \/ ReturnPhase(p)

NextPhases == \E p \in Procs : PhaseStep(p)

SpecPhases == InitCoord /\ [][NextPhases]_vars

\* C8: across any sequence of Context operations from any number of callers,
\* set_current_phase and get_agents_for_next_phase included,
\* current_phase[chat] never decreases from one state to the next.
C8_PhaseMonotonic == [][PhaseNeverDecreases]_vars

\* The write of get_agents_for_next_phase never lowers the phase.  SpecPhases
\* violates it without any call of set_current_phase: a caller reads phase 0,
\* another advances twice to phase 2, the first then writes phase 1.
AdvancingNeverLowers ==
    [][\A p \in Procs :
         (job[p].op = "get_agents_for_next_phase" /\ pc[p] = "setphase" /\ pc'[p] = "retphase")
             => PhaseNeverDecreases]_vars

\* C33: when concurrent add_query calls on one chat have all returned, the
\* chat's stored queries hold the query of every call.
C33_BothQueriesStored ==
    (AllDone /\ \A p \in Procs : job[p].op = "add_query" /\ job[p].chat = "c1")
        => \A p \in Procs : job[p].query \in Range(get_queries("c1"))

Advancers == {p \in Procs : job[p].op = "get_agents_for_next_phase" /\ job[p].chat = "c1"}

\* C38: when concurrent get_agents_for_next_phase calls on one chat have all
\* returned, no two of them were handed the same phase, and the current phase
\* has advanced by one for every call that was handed a phase.
C38_PhasesHandedOutOnce ==
    (AllDone /\ Advancers = Procs /\ HasKey(current_phase, "c1"))
        => /\ \A p, q \in Procs : (p # q /\ job[p].phase >= 0) => job[p].phase # job[q].phase
           /\ current_phase["c1"] = Cardinality({p \in Procs : job[p].phase >= 0})

\* ---------------------------------------------------------------------------
\* A phased coordinator's context operations together with the agents'
\* message handling.
\* ---------------------------------------------------------------------------
\* The chat's phases: the agent of the middle phase is none that
\* RemoveRequiredAgentForCurrentPhase ever removes.
PhasedPhases == <<<<"A">>, <<"C">>, <<"A", "B">>>>

InitPhased ==
    /\ use_redis \in BOOLEAN
    /\ participants = <<>>
    /\ message_trace = <<>>
    /\ llm_chat_completion = EmptyDict
    /\ llm_required_tool_call = EmptyDict
    /\ llm_available_tools_in_chat = EmptyDict
    /\ queries = EmptyDict
    /\ agents_sequence = EmptyDict
    /\ route_response_to = EmptyDict
    /\ agent_phase_assignments = [chat \in Chats |-> PhasedPhases]
    /\ current_phase = [chat \in Chats |-> 0]
    /\ required_agents_for_current_phase = [chat \in Chats |-> Item(PhasedPhases, 0)]
    /\ collaboration_type \in {EmptyDict, [chat \in Chats |-> "PHASED"]}
    /\ agents = EmptyDict
    /\ tools = EmptyDict
    /\ contexts = EmptyDict
    /\ outbox = <<>>
    /\ handled = 0
    /\ transports = <<>>
    /\ replay = NoReplay
    /\ last = NoCall
    /\ InitProcs

NextPhased ==
    \/ GetAgentsForNextPhase
    \/ RemoveRequiredAgentForCurrentPhase
    \/ HandleRequest
    \/ HandleResponse
    \/ CallStep

SpecPhased == InitPhased /\ [][NextPhased]_vars

\* C34: get_agents_for_next_phase moves the chat to the next phase, and makes
\* that phase's agents the required ones, whenever a next phase exists, whether
\* or not agents of the current phase are still required; and an agent that
\* handles a request (and sends its ACK or response) changes nothing of the
\* phase state.
C34_AdvanceNotLinkedToCompletion ==
    [][\A chat \in Chats :
         /\ (/\ last'.op = "get_agents_for_next_phase" /\ last'.args[1] = chat
             /\ get_current_phase(chat) # PyNone
             /\ current_phase[chat] + 1 < Len(get_agent_phase_assignments(chat)))
            => /\ current_phase'[chat] = current_phase[chat] + 1
               /\ get_required_agents_for_current_phase(chat)' =
                      Item(get_agent_phase_assignments(chat), current_phase[chat] + 1)
         /\ HandlesRequest => UNCHANGED phaseVars]_vars

\* The chat was moved to its last phase: the call found the middle phase's
\* agent still required, since nothing removes it.
C34_Witness ==
    /\ last.op = "get_agents_for_next_phase"
    /\ last.ret = PyList(Item(PhasedPhases, 2))
    /\ current_phase["c1"] = 2
    /\ handled > 0

\* C35: get_agents_for_next_phase for a chat whose current phase was never
\* set returns without raising and leaves the phase state as it was.
C35_NextPhaseWithoutCurrentIsNeutral ==
    [][\A chat \in Chats :
         (/\ last'.op = "get_agents_for_next_phase" /\ last'.args[1] = chat
          /\ get_current_phase(chat) = PyNone)
         => /\ last'.err = ""
            /\ UNCHANGED phaseVars]_vars

\* What the code does keep in that case: the phase state.
NextPhaseWithoutCurrentKeepsState ==
    [][(last'.op = "get_agents_for_next_phase" /\ last'.err # "")
         => /\ last'.err = "TypeError"
            /\ get_current_phase(last'.args[1]) = PyNone
            /\ UNCHANGED phaseVars]_vars

\* C37: when get_agents_for_next_phase returns a list, the chat's required
\* agents are exactly that list, whatever was still required before.
C37_RequiredIsReturnedList ==
    [][\A chat \in Chats :
         (/\ last'.op = "get_agents_for_next_phase" /\ last'.args[1] = chat
          /\ last'.err = "" /\ last'.ret # PyNone)
         => /\ PyList(get_required_agents_for_current_phase(chat)') = last'.ret
            /\ last'.ret = PyList(Item(get_agent_phase_assignments(chat)',
                                       current_phase'[chat]))]_vars

\* The last phase was handed out while the middle phase's agent, which nothing
\* removes, was still required.
C37_Witness ==
    /\ last.op = "get_agents_for_next_phase"
    /\ last.ret = PyList(<<"A", "B">>)
    /\ get_required_agents_for_current_phase("c1") = <<"A", "B">>
    /\ get_current_phase("c1") = PyInt(2)

\* ---------------------------------------------------------------------------
\* Two contexts with different names used side by side.
\* ---------------------------------------------------------------------------
CtxNames == {"X", "Y"}

\* What the getters of the context called name return.  The local attributes
\* are the class's own (no method ever assigns one on the instance) and the
\* redis keys do not carry the context's name: the name selects nothing.
ContextGetters(name) ==
    [name |-> name,
     participants |-> participants,
     message_trace |-> message_trace,
     llm_chat_completion |-> llm_chat_completion,
     collaboration_type |-> [chat \in Chats |-> get_collaboration_type(chat)]]

CtxFrame == UNCHANGED <<use_redis, replay, message_trace, toolVars, agents_sequence, route_response_to,
                        phaseVars, regVars, agentVars, procVars>>

CtxAddParticipant ==
    \E name \in CtxNames, agent_name \in SeqAgents :
        /\ Len(participants) < MaxParticipants
        /\ add_participant(agent_name)
        /\ last' = Ok("add_participant", <<name, agent_name>>, PyNone)
        /\ UNCHANGED <<llm_chat_completion, collaboration_type>>
        /\ CtxFrame

CtxAppendChatCompletion ==
    \E name \in CtxNames, chat \in Chats :
        /\ Len(ChatHistory(chat)) < MaxHistory
        /\ append_chat_completion(chat, AssistantMessage("r1"))
        /\ last' = Ok("append_chat_completion", <<name, chat>>, PyNone)
        /\ UNCHANGED <<participants, collaboration_type>>
        /\ CtxFrame

CtxSetCollaborationType ==
    \E name \in CtxNames, chat \in Chats, mode \in CollaborationTypes :
        /\ set_collaboration_type(chat, mode)
        /\ last' = Ok("set_collaboration_type", <<name, chat>>, PyNone)
        /\ UNCHANGED <<participants, llm_chat_completion>>
        /\ CtxFrame

InitCtx ==
    /\ use_redis \in BOOLEAN
    /\ participants = <<>>
    /\ message_trace = <<>>
    /\ llm_chat_completion = EmptyDict
    /\ llm_required_tool_call = EmptyDict
    /\ llm_available_tools_in_chat = EmptyDict
    /\ queries = EmptyDict
    /\ agents_sequence = EmptyDict
    /\ route_response_to = EmptyDict
    /\ agent_phase_assignments = EmptyDict
    /\ current_phase = EmptyDict
    /\ required_agents_for_current_phase = EmptyDict
    /\ collaboration_type = EmptyDict
    /\ agents = EmptyDict
    /\ tools = EmptyDict
    /\ contexts = register_context(register_context(EmptyDict, WiseAgentContext("X")),
                                   WiseAgentContext("Y"))
    /\ outbox = <<>>
    /\ handled = 0
    /\ transports = <<>>
    /\ replay = NoReplay
    /\ last = NoCall
    /\ InitProcs

NextCtx ==
    \/ CtxAddParticipant
    \/ CtxAppendChatCompletion
    \/ CtxSetCollaborationType

SpecCtx == InitCtx /\ [][NextCtx]_vars

\* C36: an operation on one context leaves what the getters of a context with
\* another name return unchanged.
C36_ContextsIsolated ==
    [][\A x, y \in CtxNames :
         (x # y /\ last'.op # "none" /\ last'.args[1] = x)
         => ContextGetters(y)' = ContextGetters(y)]_vars

\* ---------------------------------------------------------------------------
\* A sequential chain: the transport delivers the messages of outbox one by
\* one, in the order they were sent; outbox[1 .. handled] were delivered.
\* ---------------------------------------------------------------------------
\* The chain is followed for at most this many messages.
MaxChain == MaxSeqLen + 2

ChainResponses == {"r1", "r2"}

InitChain ==
    /\ use_redis \in BOOLEAN
    /\ participants = <<>>
    /\ message_trace = <<>>
    /\ llm_chat_completion = EmptyDict
    /\ llm_required_tool_call = EmptyDict
    /\ llm_available_tools_in_chat = EmptyDict
    /\ queries = EmptyDict
    /\ agents_sequence \in {[chat \in Chats |-> s] : s \in SequenceInputs \ {<<>>}}
    /\ route_response_to = [chat \in Chats |-> "R"]
    /\ agent_phase_assignments = EmptyDict
    /\ current_phase = EmptyDict
    /\ required_agents_for_current_phase = EmptyDict
    /\ collaboration_type = [chat \in Chats |-> "SEQUENTIAL"]
    /\ agents = EmptyDict
    /\ tools = EmptyDict
    /\ contexts = EmptyDict
    /\ outbox = <<Sent("request", agents_sequence["c1"][1], Message("m1", "U", "unset", "ctx", "c1"))>>
    /\ handled = 0
    /\ transports = <<>>
    /\ replay = NoReplay
    /\ last = NoCall
    /\ InitProcs

\* The transport hands the next request to its agent, when that has returned
\* from the request before: handle_request begins.
DeliverRequest ==
    /\ handled < Len(outbox)
    /\ Len(outbox) < MaxChain
    /\ outbox[handled + 1].via = "request"
    /\ outbox[handled + 1].to \notin Busy
    /\ \E p \in Procs :
         handle_request(p, outbox[handled + 1].to,
                        [sender |-> outbox[handled + 1].message.sender,
                         chat_id |-> outbox[handled + 1].message.chat_id,
                         context_name |-> outbox[handled + 1].message.context_name],
                        0)
    /\ handled' = handled + 1
    /\ HandlerFrame

\* The agent's process_request answers and handle_response routes the answer.
ChainRespond == HandleResponseWith(ChainResponses)

\* The transport hands a response to the agent it is routed to, which is none
\* of the chain's agents.
DeliverResponse ==
    /\ handled < Len(outbox)
    /\ outbox[handled + 1].via = "response"
    /\ handled' = handled + 1
    /\ last' = Ok("process_response", <<outbox[handled + 1].to>>, PyBool(TRUE))
    /\ UNCHANGED <<ctxVars, seqVars, contexts, outbox, transports>>
    /\ AgentFrame

NextChain == DeliverRequest \/ ChainRespond \/ CallStep \/ DeliverResponse

SpecChain == InitChain /\ [][NextChain]_vars

\* The transport delivers every message.
SpecChainFair == SpecChain /\ WF_vars(NextChain)

\* The agents that handled a request so far, in order: each sent one message.
Handlers == [i \in 1..(Len(outbox) - 1) |-> outbox[i + 1].message.sender]

ChainResponsesTo(dest) == {i \in DOMAIN outbox : outbox[i].via = "response" /\ outbox[i].to = dest}

\* Everything was delivered, the agents ran once each in the sequence's order
\* and the one response went to R.
ChainComplete ==
    /\ handled = Len(outbox)
    /\ \A p \in Procs : pc[p] = "idle"
    /\ Handlers = agents_sequence["c1"]
    /\ ChainResponsesTo("R") = {Len(outbox)}
    /\ \A i \in 1..(Len(outbox) - 1) : outbox[i].via = "request"

DistinctNames(s) == \A i, j \in DOMAIN s : s[i] = s[j] => i = j

\* C39 (as stated): whatever the sequence, the agents that handle a request are
\* those of the sequence in its order, none a second time.
C39_ChainFollowsSequence == IsPrefix(Handlers, agents_sequence["c1"])

\* C39 (amended): for a sequence of distinct names the chain follows the
\* sequence, never revisits an agent, and ends with exactly one response
\* delivered to R.
C39_DistinctChainCompletes ==
    DistinctNames(agents_sequence["c1"])
        => /\ [](IsPrefix(Handlers, agents_sequence["c1"]) /\ Cardinality(ChainResponsesTo("R")) <= 1)
           /\ <>[]ChainComplete

C39_Witness ==
    /\ ChainComplete
    /\ DistinctNames(agents_sequence["c1"])
    /\ Len(agents_sequence["c1"]) = MaxSeqLen
    /\ last.op = "process_response"

\* ---------------------------------------------------------------------------
\* StompWiseAgentTransport: start, stop, send_request and send_response of one
\* transport object, kept in transports[1], called by threads that share it.
\* A thread inside a call goes from one call on a connection to the next
\* (transport_do), the steps of other threads in between.  outbox holds what
\* went out.
\* ---------------------------------------------------------------------------
MaxSends == 2

StompDests == {"A", "R"}

StompMessages == {Message("m1", "A", "unset", "ctx", "c1")}

StompCall(op, args) == [op |-> op, args |-> args, object |-> 1, held |-> NotHeld]

StompFrame == UNCHANGED <<use_redis, replay, ctxVars, toolVars, seqVars, phaseVars, regVars, handled,
                          snap, watching, dirty>>

\* The next step of thread p inside call, from position at.  When the call
\* ends, last tells how: err is the exception it raised, connected whether
\* its message went out as a frame on a connected connection.
StompMove(p, call, at) ==
    \E step \in {transport_do(call.op, at, transports[1], call.held, HeldBy(Waiting(p, 1)))} :
    LET ends == step.at \in {"done", "raised"}
    IN /\ transports' = [transports EXCEPT ![1] = step.t]
       /\ outbox' = IF step.frame
                    THEN Append(outbox, Sent(IF call.op = "send_request" THEN "request"
                                             ELSE "response", call.args[2], call.args[1]))
                    ELSE outbox
       /\ pc' = [pc EXCEPT ![p] = IF ends THEN "idle" ELSE step.at]
       /\ job' = Moves(p, 1, step, IF ends THEN NoCall ELSE [call EXCEPT !.held = step.held])
       /\ last' = IF ends
                  THEN [op |-> call.op, args |-> call.args, ret |-> PyNone, err |-> step.err,
                        connected |-> step.frame]
                  ELSE NoCall
       /\ StompFrame

\* start() is called: the test of line 93 and, past it, the new conn and the
\* connect() the thread waits in.
StompStart == \E p \in Procs : FirstIdle(p) /\ StompMove(p, StompCall("start", <<>>), "start")

\* stop() is called: the test of line 140 and conn.unsubscribe begins.
StompStop == \E p \in Procs : FirstIdle(p) /\ StompMove(p, StompCall("stop", <<>>), "stop")

Sending == {p \in Procs : job[p].op \in {"send_request", "send_response"}}

\* send_request / send_response is called: the test on None and what follows
\* it, up to the first call on a connection.
StompSend(via) ==
    \E p \in Procs, message \in StompMessages, dest_agent_name \in StompDests :
        /\ FirstIdle(p)
        /\ Len(outbox) + Cardinality(Sending) < MaxSends
        /\ StompMove(p, StompCall("send_" \o via, <<message, dest_agent_name>>), "transport")

StompSendRequest == StompSend("request")

StompSendResponse == StompSend("response")

\* A thread inside a call of the transport goes on: the call on a connection
\* it waits in returns, and it begins its next.
StompStep == \E p \in Procs : pc[p] \in TransportPcs /\ StompMove(p, job[p], pc[p])

InitStomp ==
    /\ use_redis = FALSE
    /\ participants = <<>>
    /\ message_trace = <<>>
    /\ llm_chat_completion = EmptyDict
    /\ llm_required_tool_call = EmptyDict
    /\ llm_available_tools_in_chat = EmptyDict
    /\ queries = EmptyDict
    /\ agents_sequence = EmptyDict
    /\ route_response_to = EmptyDict
    /\ agent_phase_assignments = EmptyDict
    /\ current_phase = EmptyDict
    /\ required_agents_for_current_phase = EmptyDict
    /\ collaboration_type = EmptyDict
    /\ agents = EmptyDict
    /\ tools = EmptyDict
    /\ contexts = EmptyDict
    /\ outbox = <<>>
    /\ handled = 0
    /\ transports = <<StompWiseAgentTransport("A")>>
    /\ replay = NoReplay
    /\ last = NoCall
    /\ InitProcs

NextStomp ==
    \/ StompStart
    \/ StompStop
    \/ StompSendRequest
    \/ StompSendResponse
    \/ StompStep

SpecStomp == InitStomp /\ [][NextStomp]_vars

IsSend(call) == call.op \in {"send_request", "send_response"}

\* C40: every message handed to send_request or send_response goes out on a
\* connection that is connected at that moment.
C40_SendsOnlyWhenConnected == IsSend(last) => last.connected

\* send_request reconnects before it sends, and still raises when, between
\* its reconnect and conn.send, another thread's stop() has disconnected conn
\* or another thread's start() has put a new connection in conn.
SendRequestRaises ==
    /\ last.op = "send_request"
    /\ last.err = "NotConnectedException"

====
